---- MODULE Spec2Model ----
(***************************************************************************)
(* A model of the osbrain agent kernel: the per-agent socket registry      *)
(* (register / bind / connect / subscribe of osbrain/core.py), the event   *)
(* loop of one agent (run / loop / iterate) and the proxy that routes      *)
(* remote calls in safe or unsafe mode (osbrain/proxy.py).                 *)
(***************************************************************************)
EXTENDS Integers, Sequences, FiniteSets, TLC

(***************************************************************************)
(* Bounds of the model.                                                    *)
(***************************************************************************)
\* the ticks of the clock that are explored
MaxTime == 4

\* the longest delay or period of a timer
MaxPeriod == 2

\* the longest callback
MaxDur == 2

\* the firings of a timer that are explored
MaxFirings == 3

\* the times twin() is applied to a value
MaxTwins == 2

\* sockets one agent creates besides its loopback socket
MaxSockets == 1
\* messages pushed to the agent's PULL socket
MaxMsgs == 2

VARIABLES
    \* ---- BaseAgent registry (core.py:37-42, 58)
    socket,     \* self.socket: alias or address -> socket
    address,    \* self.address: alias -> address
    handler,    \* self.handler: socket -> handler(s)
    poller,     \* sockets registered in self.poller for POLLIN
    sockinfo,   \* every zmq socket the agent created: kind, origin, port
    subs,       \* per socket, the topics set with setsockopt(SUBSCRIBE)
    last,       \* the last registry call and how it ended
    \* ---- the agent's event loop (core.py:44-50, 311-395, 417-423)
    running,    \* self.running
    keep_alive, \* self.keep_alive
    lpc,        \* where the thread that executes run() is
    events,     \* iterate: the sockets poll reported, still to be served
    cur,        \* iterate: the socket being served
    msg,        \* iterate: the message being handled
    hret,       \* iterate: handler_return
    inbox,      \* per socket, the messages received and not yet read
    bussy,      \* the attribute a stay_bussy handler sets while it runs
    hstarted,   \* message handlers started so far
    hfinished,  \* message handlers finished so far
    closed,     \* sockets closed by close_sockets
    serving,    \* the caller whose request the Pyro daemon is serving, or 0
    awaiting,   \* REP sockets that received a request and sent no reply yet
    kill_agent, \* self.kill_agent
    destroyed,  \* self.context.destroy() was called
    exited,     \* a thread that executed run() has ended
    todo,       \* iterate: the handlers still to call for the message
    hlog,       \* the handler calls made for the message, in order
    sent,       \* per REP socket, the replies sent to requesters outside
    \* ---- proxies, one per caller (proxy.py:63-169)
    p_default,  \* proxy._default_safe
    p_safe,     \* proxy._safe
    p_methods,  \* proxy._pyroMethods
    sel,        \* the modifier applied since the proxy's last invocation
    cpc,        \* where the caller's invocation is
    call,       \* the invocation in progress
    \* ---- a second thread executing run() (core.py:417-423)
    parked,     \* the state of that thread while the other one is scheduled
    \* ---- one timer (spec.md 4.5, tests/test_timer.py)
    now,        \* the clock
    tcall,      \* where the thread that schedules and closes the timer is
    tkind,      \* "once" or "repeating"
    tperiod,    \* the delay or the period
    tdur,       \* how long the callback takes
    due,        \* when the unit's sleep ends, or Never
    began,      \* when the firing in progress began
    inprogress, \* executions of the callback in progress
    firings,    \* executions of the callback started so far
    completed,  \* executions of the callback completed so far
    cancelled,  \* close() was called on the handle
    \* ---- a kind, role or address value (tests/test_address.py)
    tseen       \* the value, followed by the results of twin() on it

regVars == <<socket, address, handler, poller, sockinfo, subs, last>>

loopVars ==
    <<running, keep_alive, lpc, events, cur, msg, hret, inbox, bussy,
      hstarted, hfinished, closed, serving>>

callVars == <<p_default, p_safe, p_methods, sel, cpc, call>>

ctlVars == <<awaiting, kill_agent, destroyed, exited, todo, hlog, sent>>

timerVars ==
    <<now, tcall, tkind, tperiod, tdur, due, began, inprogress, firings,
      completed, cancelled>>

otherVars == <<parked, timerVars, tseen>>

vars == <<regVars, loopVars, callVars, ctlVars, otherVars>>

(***************************************************************************)
(* Address model.  osbrain/address.py is not part of the sources; the      *)
(* tables below are the ones its tests pin down (tests/test_address.py).   *)
(***************************************************************************)
Kinds == {"REQ", "REP", "PUSH", "PULL", "PUB", "SUB"}

Roles == {"server", "client"}

\* a variant of the table whose last row repeats the one before
KindTwinSlip(k) ==
    CASE k = "REQ" -> "REP"
      [] k = "REP" -> "REQ"
      [] k = "PUSH" -> "PULL"
      [] k = "PULL" -> "PUSH"
      [] k = "PUB" -> "SUB"
      [] k = "SUB" -> "SUB"

\* AgentAddressKind.twin
KindTwin(k) ==
    CASE k = "REQ" -> "REP"
      [] k = "REP" -> "REQ"
      [] k = "PUSH" -> "PULL"
      [] k = "PULL" -> "PUSH"
      [] k = "PUB" -> "SUB"
      [] k = "SUB" -> "PUB"

\* AgentAddressRole.twin
RoleTwin(r) == IF r = "server" THEN "client" ELSE "server"

\* AgentAddressKind.requires_handler: REQ False, REP True, PUSH False,
\* PULL True, PUB False, SUB True
requires_handler(k) == k \in {"REP", "PULL", "SUB"}

(***************************************************************************)
(* Keys of self.socket and self.address.  Python keys are either str       *)
(* (aliases, and the loopback address 'inproc://loopback'), None, or       *)
(* AgentAddress values; an AgentAddress never equals a str.                *)
(***************************************************************************)
StrKey(s) == [tag |-> "str", name |-> s, port |-> 0, kind |-> "", role |-> ""]

NoneKey == [tag |-> "none", name |-> "", port |-> 0, kind |-> "", role |-> ""]

\* AgentAddress(host, port, kind, role); the host is the agent's own
AgentAddress(p, k, r) ==
    [tag |-> "addr", name |-> "", port |-> p, kind |-> k, role |-> r]

\* AgentAddress.twin: same location, twin kind and twin role
AddressTwin(a) == AgentAddress(a.port, KindTwin(a.kind), RoleTwin(a.role))

\* the ports of the host the sockets are bound and connected to
Ports == {1}

Addresses == {AgentAddress(p, k, r) : p \in Ports, k \in Kinds, r \in Roles}

LoopbackAddress == StrKey("inproc://loopback")

LoopbackAlias == StrKey("loopback")

\* aliases a caller passes: None, '', and some names
AliasArgs == {NoneKey, StrKey("a")}

\* Python truthiness of an alias: `not alias` holds for None and ''
Falsy(alias) == alias = NoneKey \/ alias = StrKey("")

(***************************************************************************)
(* Handlers.  A handler argument is None, a function, a list of items, a   *)
(* dict from topic to item, or something else (e.g. a str).  Items are     *)
(* function names; "x" stands for an item that is not a function.          *)
(***************************************************************************)
HNone == [ty |-> "none", fs |-> <<>>, ts |-> <<>>]

HFunc(f) == [ty |-> "func", fs |-> <<f>>, ts |-> <<>>]

HList(fs) == [ty |-> "list", fs |-> fs, ts |-> <<>>]

HDict(ts, fs) == [ty |-> "dict", fs |-> fs, ts |-> ts]

HOther == [ty |-> "other", fs |-> <<>>, ts |-> <<>>]

IsFunction(f) == f # "x"

\* handler arguments a caller passes: none, a function, a str
HandlerArgs == {HNone, HFunc("h1"), HOther}

\* indices of the items of a list or dict handler that are functions
RECURSIVE KeepFunctions(_, _)
KeepFunctions(fs, xs) ==
    IF fs = <<>> THEN <<>>
    ELSE IF IsFunction(Head(fs))
         THEN <<Head(xs)>> \o KeepFunctions(Tail(fs), Tail(xs))
         ELSE KeepFunctions(Tail(fs), Tail(xs))

(***************************************************************************)
(* The registry as a value, so that a call made of several steps can be    *)
(* composed: R is the agent's maps, a result is [R, err].                  *)
(***************************************************************************)
Put(f, k, v) == [x \in (DOMAIN f) \cup {k} |-> IF x = k THEN v ELSE f[x]]

Registry ==
    [socket |-> socket, address |-> address, handler |-> handler,
     poller |-> poller, sockinfo |-> sockinfo, subs |-> subs]

(***************************************************************************)
(* What a call raises: the message of the assertion that failed, or the    *)
(* name of the exception; "none" when the call returned.                   *)
(***************************************************************************)
AlreadyRegistered == "Socket is already registered!"

HandlerRequired == "This socket requires a handler!"

IncorrectAddress == "Incorrect address! A server address must be provided!"

NewHandlerGiven == "Undefined behavior when a new handler is given! (TODO)"

OnlyFunctions == "Only functions/methods are allowed!"

Ok(R) == [R |-> R, err |-> "none"]

Raise(R, e) == [R |-> R, err |-> e]

\* BaseAgent.registered
registered(R, key) == key \in DOMAIN R.socket

\* BaseAgent.set_handler
set_handler(R, s, h) ==
    CASE h.ty = "func" ->
            Ok([R EXCEPT !.handler = Put(R.handler, s, h)])
      [] h.ty = "list" ->
            Ok([R EXCEPT !.handler =
                   Put(R.handler, s, HList(KeepFunctions(h.fs, h.fs)))])
      [] h.ty = "dict" ->
            Ok([R EXCEPT !.handler =
                   Put(R.handler, s, HDict(KeepFunctions(h.fs, h.ts),
                                           KeepFunctions(h.fs, h.fs)))])
      [] OTHER -> Raise(R, OnlyFunctions)

\* the duplicate check of BaseAgent.register
register_check(R, addr, alias) == ~registered(R, addr)

\* BaseAgent.register
register(R, s, addr, alias, h) ==
    IF ~register_check(R, addr, alias) THEN Raise(R, AlreadyRegistered)
    ELSE
    LET al == IF Falsy(alias) THEN addr ELSE alias
        R1 == [R EXCEPT !.socket = Put(Put(R.socket, al, s), addr, s),
                        !.address = Put(R.address, al, addr)]
    IN  IF h = HNone THEN Ok(R1)
        ELSE set_handler([R1 EXCEPT !.poller = R1.poller \cup {s}], s, h)

\* BaseAgent.subscribe: a handler that is not a dict becomes {'': handler}
SubscribeDict(handlers) ==
    CASE handlers.ty = "dict" -> handlers
      [] handlers.ty = "func" -> HDict(<<"">>, handlers.fs)
      [] OTHER -> HDict(<<"">>, <<"x">>)

subscribe(R, alias, handlers) ==
    LET hs == SubscribeDict(handlers)
        topics == {hs.ts[i] : i \in DOMAIN hs.ts}
    IN  IF ~registered(R, alias) THEN Raise(R, "KeyError")
        ELSE
        LET s == R.socket[alias]
        IN  IF topics # {} /\ R.sockinfo[s].kind # "SUB"
            THEN Raise(R, "ZMQError")
            ELSE set_handler(
                    [R EXCEPT !.subs = Put(R.subs, s, R.subs[s] \cup topics)],
                    s, hs)

\* context.socket(kind): the next socket of the agent
NewSocket(R) == Cardinality(DOMAIN R.sockinfo)

\* ports on which a socket of this agent is bound
BoundPorts(R) ==
    {R.sockinfo[s].port : s \in {x \in DOMAIN R.sockinfo :
                                    R.sockinfo[x].via = "bind"}}

Created(R, s, k, via, p) ==
    [R EXCEPT !.sockinfo = Put(R.sockinfo, s,
                               [kind |-> k, via |-> via, port |-> p]),
              !.subs = Put(R.subs, s, {})]

\* a variant of bind and connect without the handler check
handler_check_off(k, h) == TRUE

\* the handler check of BaseAgent.bind and BaseAgent.connect
handler_check(k, h) == ~requires_handler(k) \/ h # HNone

\* BaseAgent.bind; zmqfail: socket creation or bind raises ZMQError
bind(R, kind, alias, h, port, zmqfail) ==
    IF ~handler_check(kind, h) THEN Raise(R, HandlerRequired)
    ELSE IF zmqfail \/ port \in BoundPorts(R) THEN Raise(R, "ZMQError")
    ELSE
    LET s == NewSocket(R)
        server_address == AgentAddress(port, kind, "server")
        r1 == register(Created(R, s, kind, "bind", port), s,
                       server_address, alias, h)
    IN  IF r1.err # "none" THEN r1
        ELSE IF kind = "SUB" THEN subscribe(r1.R, server_address, h)
        ELSE r1

\* BaseAgent._connect_new
connect_new(R, client_address, alias, h, zmqfail) ==
    IF zmqfail THEN Raise(R, "ZMQError")
    ELSE LET s == NewSocket(R)
         IN  register(Created(R, s, client_address.kind, "connect",
                              client_address.port),
                      s, client_address, alias, h)

\* a variant of _connect_old that opens a connection of its own
connect_old_opens(R, client_address, alias, h) ==
    connect_new(R, client_address, alias, h, FALSE)

\* a variant of _connect_old that gives the new handler to the socket
connect_old_overrides(R, client_address, alias, h) ==
    LET r == IF h = HNone THEN Ok(R)
             ELSE set_handler(R, R.socket[client_address], h)
    IN  [r EXCEPT !.R.socket = Put(r.R.socket, alias, R.socket[client_address]),
                  !.R.address = Put(r.R.address, alias, client_address)]

\* BaseAgent._connect_old
connect_old(R, client_address, alias, h) ==
    IF h # HNone THEN Raise(R, NewHandlerGiven)
    ELSE Ok([R EXCEPT
               !.socket = Put(R.socket, alias, R.socket[client_address]),
               !.address = Put(R.address, alias, client_address)])

\* a variant of connect without the role check
role_check_off(server_address) == TRUE

\* the role check of BaseAgent.connect
role_check(server_address) == server_address.role = "server"

\* BaseAgent.connect
connect(R, server_address, alias, h, zmqfail) ==
    IF ~role_check(server_address) THEN Raise(R, IncorrectAddress)
    ELSE
    LET client_address == AddressTwin(server_address)
    IN  IF ~handler_check(client_address.kind, h)
        THEN Raise(R, HandlerRequired)
        ELSE IF registered(R, client_address)
             THEN connect_old(R, client_address, alias, h)
             ELSE connect_new(R, client_address, alias, h, zmqfail)

(***************************************************************************)
(* The registry operations as actions.  `last` records the operation that  *)
(* was called last and what it raised.                                     *)
(***************************************************************************)
\* the run stays within the bound on the sockets of the agent
WithinBounds(R) == Cardinality(DOMAIN R.sockinfo) <= MaxSockets + 1

Commit(res, op) ==
    /\ socket' = res.R.socket
    /\ address' = res.R.address
    /\ handler' = res.R.handler
    /\ poller' = res.R.poller
    /\ sockinfo' = res.R.sockinfo
    /\ subs' = res.R.subs
    /\ last' = [op |-> op, err |-> res.err]
    /\ UNCHANGED <<loopVars, callVars, ctlVars, otherVars>>

\* BaseAgent.__init__: the loopback REP socket is registered first
NewAgent ==
    [socket |-> (LoopbackAlias :> 0) @@ (LoopbackAddress :> 0),
     address |-> (LoopbackAlias :> LoopbackAddress),
     handler |-> (0 :> HFunc("handle_loopback")),
     poller |-> {0},
     sockinfo |-> (0 :> [kind |-> "REP", via |-> "init", port |-> 0]),
     subs |-> (0 :> {})]

InitRegistry(R) ==
    /\ socket = R.socket
    /\ address = R.address
    /\ handler = R.handler
    /\ poller = R.poller
    /\ sockinfo = R.sockinfo
    /\ subs = R.subs
    /\ last = [op |-> "init", err |-> "none"]

\* agent.bind(kind, alias, handler, port=port)
Bind ==
    \E kind \in Kinds, alias \in AliasArgs, h \in HandlerArgs, port \in Ports :
        LET res == bind(Registry, kind, alias, h, port, FALSE)
        IN  /\ WithinBounds(res.R)
            /\ Commit(res, "bind")

\* agent.bind('PUSH', alias='inproc://loopback', port=port): the alias is
\* the str under which the loopback socket's address is registered
BindLoopbackName ==
    \E port \in Ports :
        LET res == bind(Registry, "PUSH", LoopbackAddress, HNone, port, FALSE)
        IN  /\ WithinBounds(res.R)
            /\ Commit(res, "bind")

\* addresses a caller passes to connect: the server addresses, and a client
\* address
ConnectArgs ==
    {a \in Addresses : a.role = "server"}
        \cup {AgentAddress(p, "PUSH", "client") : p \in Ports}

\* agent.connect(server_address, alias, handler)
Connect ==
    \E addr \in ConnectArgs, alias \in AliasArgs, h \in HandlerArgs :
        LET res == connect(Registry, addr, alias, h, FALSE)
        IN  /\ WithinBounds(res.R)
            /\ Commit(res, "connect")

\* agent.connect(server_address) when zmq cannot open the connection
ConnectRefused ==
    \E addr \in ConnectArgs :
        LET res == connect(Registry, addr, NoneKey, HNone, TRUE)
        IN  /\ WithinBounds(res.R)
            /\ Commit(res, "connect")

\* addresses a caller registers a socket of its own under
RegisterArgs ==
    {AgentAddress(p, "REP", "server") : p \in Ports}
        \cup {AgentAddress(p, "PUSH", "client") : p \in Ports}

\* agent.register(socket, address, alias, handler) with a socket the caller
\* created with context.socket(address.kind)
Register ==
    \E addr \in RegisterArgs, alias \in AliasArgs, h \in HandlerArgs :
        LET s == NewSocket(Registry)
            R0 == Created(Registry, s, addr.kind, "user", addr.port)
            res == register(R0, s, addr, alias, h)
        IN  /\ WithinBounds(res.R)
            /\ Commit(res, "register")

\* agent.subscribe(alias, handlers)
Subscribe ==
    \E alias \in AliasArgs, h \in HandlerArgs :
        LET res == subscribe(Registry, alias, h)
        IN  /\ WithinBounds(res.R)
            /\ Commit(res, "subscribe")

(***************************************************************************)
(* The event loop.  One thread executes run(): Pyro starts it for the      *)
(* oneway call that run_agent makes.  Messages are (header, data) pairs;   *)
(* `from` names the caller that waits for the reply of a loopback request. *)
(***************************************************************************)
\* two caller threads, each with a proxy of its own
Callers == {1, 2}

Message(hdr, data, from) == [hdr |-> hdr, data |-> data, from |-> from]

NoMessage == Message("", <<>>, 0)

\* the socket registered as 'loopback'
LoopbackSocket == 0

\* the alias under which _log_message looks for the logger
LogAlias == StrKey("log")

\* BaseAgent.handle_loopback: the reply, and what the handler does; every
\* header but PING is logged before anything else is done
handle_loopback(header) ==
    CASE header = "PING" ->
            [ret |-> "PONG", stop |-> FALSE, close |-> FALSE, logs |-> FALSE]
      [] header = "STOP" ->
            [ret |-> "OK", stop |-> TRUE, close |-> FALSE, logs |-> TRUE]
      [] header = "CLOSE" ->
            [ret |-> "OK", stop |-> FALSE, close |-> TRUE, logs |-> TRUE]
      [] OTHER ->
            [ret |-> "None", stop |-> FALSE, close |-> FALSE, logs |-> TRUE]

\* a variant of close_sockets that skips no key
close_sockets_all(R) == {R.socket[k] : k \in DOMAIN R.socket}

\* BaseAgent.close_sockets: every registered socket but the loopback one
close_sockets(R) ==
    {R.socket[k] : k \in (DOMAIN R.socket) \ {LoopbackAlias, LoopbackAddress}}

\* a socket on which zmq refuses to send or to poll: it was closed, or the
\* context was destroyed
Unusable(s) == s \in closed \/ destroyed

\* BaseAgent._log_message raises: the socket registered as 'log' is not a
\* PUB socket (AssertionError), or sending on it raises ZMQError
log_raises(R) ==
    /\ registered(R, LogAlias)
    /\ \/ R.sockinfo[R.socket[LogAlias]].kind # "PUB"
       \/ Unusable(R.socket[LogAlias])

\* the loop thread is running the body of a safe call
InCall == lpc = "handler" /\ msg.hdr = "CALL"

\* the loop thread is running a message handler
InHandler == lpc = "handler" /\ msg.hdr # "CALL"

\* the handler in progress, numbered from 1; 0 when there is none
CurrentHandler == IF InHandler THEN hstarted ELSE 0

\* the loop thread is inside loop(): testing keep_alive, polling, or
\* serving the sockets that poll reported
InLoop == lpc \in {"loop", "poll", "recv", "handler", "after"}

RECURSIVE Orders(_)
Orders(S) ==
    IF S = {} THEN {<<>>}
    ELSE UNION {{<<s>> \o o : o \in Orders(S \ {s})} : s \in S}

\* no wake-up is pending
Never == -1

\* no timer was scheduled yet
InitTimer ==
    /\ now = 0
    /\ tcall = "idle"
    /\ tkind = "none"
    /\ tperiod = 0
    /\ tdur = 0
    /\ due = Never
    /\ began = 0
    /\ inprogress = 0
    /\ firings = 0
    /\ completed = 0
    /\ cancelled = FALSE

\* the state of its own that a thread executing run() has: where it is, and
\* the local names of iterate
NoThread ==
    [lpc |-> "none", events |-> <<>>, cur |-> 0, msg |-> NoMessage,
     hret |-> "unbound", todo |-> <<>>, hlog |-> <<>>]

InitLoop(R) ==
    /\ running = FALSE
    /\ keep_alive = TRUE
    /\ lpc = "new"
    /\ events = <<>>
    /\ cur = 0
    /\ msg = NoMessage
    /\ hret = "unbound"
    /\ inbox = [s \in 0 .. MaxSockets |-> <<>>]
    /\ bussy = FALSE
    /\ hstarted = 0
    /\ hfinished = 0
    /\ closed = {}
    /\ serving = 0
    /\ awaiting = {}
    /\ kill_agent = FALSE
    /\ destroyed = FALSE
    /\ exited = FALSE
    /\ todo = <<>>
    /\ hlog = <<>>
    /\ sent = [s \in 0 .. MaxSockets |-> <<>>]
    /\ parked = NoThread

\* BaseAgent.run, up to the call of loop()
Run ==
    /\ lpc = "new"
    /\ running' = TRUE
    /\ lpc' = "loop"
    /\ UNCHANGED <<keep_alive, events, cur, msg, hret, inbox, bussy,
                   hstarted, hfinished, closed, serving>>
    /\ UNCHANGED <<regVars, otherVars, callVars, ctlVars>>

\* BaseAgent.loop: the test of keep_alive; when it is False run() resets
\* running
LoopTest ==
    /\ lpc = "loop"
    /\ IF keep_alive
       THEN lpc' = "poll" /\ running' = running /\ exited' = exited
       ELSE lpc' = "stopped" /\ running' = FALSE /\ exited' = TRUE
    /\ UNCHANGED <<keep_alive, events, cur, msg, hret, inbox, bussy,
                   hstarted, hfinished, closed, serving>>
    /\ UNCHANGED <<awaiting, kill_agent, destroyed, todo, hlog, sent>>
    /\ UNCHANGED <<regVars, otherVars, callVars>>

\* the sockets for which poll reports input: a REP socket that received a
\* request reports none until the reply has been sent
Ready == {s \in poller : inbox[s] # <<>> /\ s \notin awaiting}

\* BaseAgent.iterate: poll returns the sockets with input, in some order;
\* without events the agent is iddle and iterate returns 0
Poll ==
    /\ lpc = "poll"
    /\ \A s \in poller : ~Unusable(s)
    /\ \E order \in Orders(Ready) :
          /\ events' = order
          /\ lpc' = IF order = <<>> THEN "loop" ELSE "recv"
    /\ hret' = "unbound"
    /\ UNCHANGED <<running, keep_alive, cur, msg, inbox, bussy, hstarted,
                   hfinished, closed, serving>>
    /\ UNCHANGED <<regVars, otherVars, callVars, ctlVars>>

\* a variant in which run() returns without resetting running
PollInterruptedKeepsFlag ==
    /\ lpc = "poll"
    /\ lpc' = "stopped"
    /\ running' = running
    /\ exited' = TRUE
    /\ UNCHANGED <<keep_alive, events, cur, msg, hret, inbox, bussy,
                   hstarted, hfinished, closed, serving>>
    /\ UNCHANGED <<awaiting, kill_agent, destroyed, todo, hlog, sent>>
    /\ UNCHANGED <<regVars, otherVars, callVars>>

\* BaseAgent.iterate: poll is interrupted (EINTR); iterate returns 1, loop
\* breaks and run() resets running
PollInterrupted ==
    /\ lpc = "poll"
    /\ lpc' = "stopped"
    /\ running' = FALSE
    /\ exited' = TRUE
    /\ UNCHANGED <<keep_alive, events, cur, msg, hret, inbox, bussy,
                   hstarted, hfinished, closed, serving>>
    /\ UNCHANGED <<awaiting, kill_agent, destroyed, todo, hlog, sent>>
    /\ UNCHANGED <<regVars, otherVars, callVars>>

\* an exception leaves iterate, loop and run: the thread ends, and nothing
\* resets running
Raised ==
    /\ lpc' = "crashed"
    /\ exited' = TRUE
    /\ running' = running

\* BaseAgent.iterate: poll raises another ZMQError, which leaves run()
PollFailed ==
    /\ lpc = "poll"
    /\ Raised
    /\ UNCHANGED <<keep_alive, events, cur, msg, hret, inbox, bussy,
                   hstarted, hfinished, closed, serving>>
    /\ UNCHANGED <<awaiting, kill_agent, destroyed, todo, hlog, sent>>
    /\ UNCHANGED <<regVars, otherVars, callVars>>

\* BaseAgent.str2bytes for the topics in use: the ASCII bytes of the str
str2bytes(t) ==
    CASE t = "" -> <<>>
      [] t = "A" -> <<"A">>
      [] t = "B" -> <<"B">>
      [] t = "A/x" -> <<"A", "/", "x">>

\* pickle.dumps(message, -1): the stream starts with the PROTO opcode 0x80
dumps(message) == <<"x80", message>>

\* BaseAgent.send: the frame on the wire is the topic followed by the pickle
Frame(t, message) == str2bytes(t) \o dumps(message)

\* bytes.index(b'\x80'): the first position of the byte, 0 when there is
\* none (ValueError)
RECURSIVE index(_, _)
index(serialized, byte) ==
    IF serialized = <<>> THEN 0
    ELSE IF Head(serialized) = byte THEN 1
    ELSE LET i == index(Tail(serialized), byte)
         IN  IF i = 0 THEN 0 ELSE i + 1

\* pickle.loads: the object, or the exception it raises
loads(data) ==
    IF Len(data) = 2 /\ data[1] = "x80" /\ data[2] \notin {"badproto", "trunc"}
    THEN [err |-> "none", value |-> data[2]]
    ELSE IF Len(data) = 2 /\ data[2] = "badproto"
    THEN [err |-> "ValueError", value |-> ""]
    ELSE [err |-> "UnpicklingError", value |-> ""]

\* a variant of the handler list that is called last to first
RECURSIVE Reversed(_)
Reversed(fs) == IF fs = <<>> THEN <<>> ELSE Reversed(Tail(fs)) \o <<Head(fs)>>

AsListReversed(h) == Reversed(h.fs)

\* BaseAgent.iterate: `handlers` of a socket that is not a SUB socket; a
\* handler that is not a list is called as it is, and a dict ("x") is not
\* callable
AsList(h) == IF h.ty = "dict" THEN <<"x">> ELSE h.fs

\* iterate goes on with the next socket that poll reported
NextSocket ==
    /\ events' = Tail(events)
    /\ lpc' = IF Tail(events) = <<>> THEN "loop" ELSE "recv"

\* BaseAgent.iterate: the next socket with input is read, pickle.loads
\* decodes the frame outside any try, and the handlers are called in order;
\* a socket without a handler raises KeyError
Dispatch ==
    /\ lpc = "recv"
    /\ events # <<>>
    /\ LET s == Head(events)
           m == Head(inbox[s])
           message == loads(m.data)
       IN  /\ sockinfo[s].kind # "SUB"
           /\ inbox[s] # <<>>
           /\ cur' = s
           /\ inbox' = [inbox EXCEPT ![s] = Tail(inbox[s])]
           /\ awaiting' = IF sockinfo[s].kind = "REP" THEN awaiting \cup {s}
                          ELSE awaiting
           /\ msg' = m
           /\ hlog' = <<>>
           /\ IF message.err # "none" \/ s \notin DOMAIN handler
              THEN /\ Raised
                   /\ UNCHANGED <<bussy, hstarted, todo>>
              ELSE /\ todo' = AsList(handler[s])
                   /\ lpc' = IF AsList(handler[s]) = <<>> THEN "after"
                             ELSE "handler"
                   /\ hstarted' = IF m.hdr = "CALL" THEN hstarted
                                  ELSE hstarted + 1
                   /\ bussy' = IF handler[s] = HFunc("stay_bussy") THEN TRUE
                               ELSE bussy
                   /\ UNCHANGED <<running, exited>>
    /\ UNCHANGED <<keep_alive, events, hret, hfinished, closed, serving>>
    /\ UNCHANGED <<kill_agent, destroyed, sent>>
    /\ UNCHANGED <<regVars, otherVars, callVars>>

\* a variant of bytes.startswith that asks for the whole frame
bytes_equal(serialized, prefix) == serialized = prefix

\* bytes.startswith
RECURSIVE bytes_startswith(_, _)
bytes_startswith(serialized, prefix) ==
    IF prefix = <<>> THEN TRUE
    ELSE IF serialized = <<>> THEN FALSE
    ELSE /\ Head(serialized) = Head(prefix)
         /\ bytes_startswith(Tail(serialized), Tail(prefix))

\* len(inspect.signature(handler).parameters): hT takes the topic as well
nparams(f) == IF f = "hT" THEN 3 ELSE 2

\* BaseAgent.iterate on a SUB socket: the handlers of the dict, in its
\* order, whose topic starts the frame and that take 2 or 3 parameters
RECURSIVE Matching(_, _, _)
Matching(ts, fs, serialized) ==
    IF ts = <<>> THEN <<>>
    ELSE IF /\ bytes_startswith(serialized, str2bytes(Head(ts)))
            /\ nparams(Head(fs)) \in {2, 3}
         THEN <<Head(fs)>> \o Matching(Tail(ts), Tail(fs), serialized)
         ELSE Matching(Tail(ts), Tail(fs), serialized)

\* the call iterate makes on a SUB socket: handler(self, message) or
\* handler(self, message, topic)
CalledSub(f, m) ==
    LET sepp == index(m.data, "x80")
    IN  [fn |-> f,
         message |-> <<loads(SubSeq(m.data, sepp, Len(m.data))).value>>,
         topic |-> IF nparams(f) = 3 THEN SubSeq(m.data, 1, sepp - 1)
                   ELSE <<"-">>]

\* BaseAgent.iterate: a SUB socket with input is read.  serialized.index
\* raises ValueError outside the try; pickle.loads is tried, and only its
\* ValueError is caught (the message is logged and skipped); iterating a
\* handler that is not a dict raises
DispatchSub ==
    /\ lpc = "recv"
    /\ events # <<>>
    /\ LET s == Head(events)
           m == Head(inbox[s])
           sepp == index(m.data, "x80")
           message == loads(SubSeq(m.data, sepp, Len(m.data)))
       IN  /\ sockinfo[s].kind = "SUB"
           /\ inbox[s] # <<>>
           /\ cur' = s
           /\ inbox' = [inbox EXCEPT ![s] = Tail(inbox[s])]
           /\ msg' = m
           /\ hlog' = <<>>
           /\ IF \/ s \notin DOMAIN handler
                 \/ sepp = 0
                 \/ message.err \notin {"none", "ValueError"}
                 \/ message.err = "ValueError" /\ log_raises(Registry)
                 \/ message.err = "none" /\ handler[s].ty # "dict"
              THEN /\ Raised
                   /\ UNCHANGED <<events, hstarted, todo>>
              ELSE IF message.err = "ValueError"
              THEN /\ NextSocket
                   /\ UNCHANGED <<running, exited, hstarted, todo>>
              ELSE /\ todo' = Matching(handler[s].ts, handler[s].fs, m.data)
                   /\ lpc' = IF Matching(handler[s].ts, handler[s].fs,
                                         m.data) = <<>>
                             THEN "after" ELSE "handler"
                   /\ hstarted' = hstarted + 1
                   /\ UNCHANGED <<running, exited, events>>
    /\ UNCHANGED <<keep_alive, hret, bussy, hfinished, closed, serving>>
    /\ UNCHANGED <<awaiting, kill_agent, destroyed, sent>>
    /\ UNCHANGED <<regVars, otherVars, callVars>>

\* what handler f returns for message m
HandlerReturn(f, m) ==
    CASE f = "handle_loopback" -> handle_loopback(m.hdr).ret
      [] f \in {"h2", "rep_both"} -> "v2"
      [] OTHER -> "None"

\* the handlers that send a reply themselves: rep_handler of
\* tests/test_agent.py calls agent.send('reply', 'OK'); rep_both does the
\* same and returns a value as well
Sends(f) == IF f \in {"rep_handler", "rep_both"} THEN <<"OK">> ELSE <<>>

SendsAnyway(s) == FALSE

\* BaseAgent.send on a REP socket: socket.send raises unless a request was
\* received and has not been answered
Refused(s) == s \notin awaiting

\* the call iterate makes on a socket that is not a SUB socket:
\* handler(self, message)
Called(f, m) ==
    [fn |-> f, message |-> <<loads(m.data).value>>, topic |-> <<"-">>]

\* the handler in progress returns; handle_loopback raises when it cannot
\* log
HandlerEnd ==
    /\ InHandler
    /\ Head(todo) # "x"
    /\ LET f == Head(todo)
           lb == handle_loopback(msg.hdr)
       IN  IF \/ f = "handle_loopback" /\ lb.logs /\ log_raises(Registry)
              \/ Sends(f) # <<>> /\ (Refused(cur) \/ Unusable(cur))
           THEN /\ Raised
                /\ UNCHANGED <<keep_alive, closed, bussy, hfinished, hret,
                               todo, hlog, sent, awaiting>>
           ELSE /\ keep_alive' = IF f = "handle_loopback" /\ lb.stop
                                 THEN FALSE ELSE keep_alive
                /\ closed' = IF f = "handle_loopback" /\ lb.close
                             THEN closed \cup close_sockets(Registry)
                             ELSE closed
                /\ bussy' = IF f = "stay_bussy" THEN FALSE ELSE bussy
                /\ hfinished' = IF Tail(todo) = <<>> THEN hfinished + 1
                                ELSE hfinished
                /\ hret' = IF sockinfo[cur].kind = "SUB" THEN hret
                           ELSE HandlerReturn(f, msg)
                /\ hlog' = Append(hlog, IF sockinfo[cur].kind = "SUB"
                                         THEN CalledSub(f, msg)
                                         ELSE Called(f, msg))
                /\ todo' = Tail(todo)
                /\ sent' = [sent EXCEPT ![cur] = @ \o Sends(f)]
                /\ awaiting' = IF Sends(f) # <<>> THEN awaiting \ {cur}
                               ELSE awaiting
                /\ lpc' = IF Tail(todo) = <<>> THEN "after" ELSE "handler"
                /\ UNCHANGED <<running, exited>>
    /\ UNCHANGED <<events, cur, msg, inbox, hstarted, serving>>
    /\ UNCHANGED <<kill_agent, destroyed>>
    /\ UNCHANGED <<regVars, otherVars, callVars>>

\* the handler in progress raises: nothing in iterate, loop or run catches
\* the exception of a handler
HandlerRaise ==
    /\ InHandler
    /\ Head(todo) # "handle_loopback"
    /\ Raised
    /\ UNCHANGED <<keep_alive, events, cur, msg, hret, inbox, bussy,
                   hstarted, hfinished, closed, serving>>
    /\ UNCHANGED <<awaiting, kill_agent, destroyed, todo, hlog, sent>>
    /\ UNCHANGED <<regVars, otherVars, callVars>>

\* BaseAgent.iterate: after the handlers of a socket, a REP socket sends
\* handler_return unless it is None; then the next socket.  The name
\* handler_return is unbound when no handler was called in this iteration,
\* and zmq refuses a second reply to one request.
Reply ==
    /\ lpc = "after"
    /\ IF sockinfo[cur].kind # "REP" \/ hret = "None"
       THEN /\ NextSocket
            /\ UNCHANGED <<running, exited, awaiting, sent, call>>
       ELSE IF hret = "unbound" \/ Refused(cur) \/ Unusable(cur)
       THEN /\ Raised
            /\ UNCHANGED <<events, awaiting, sent, call>>
       ELSE /\ NextSocket
            /\ awaiting' = awaiting \ {cur}
            /\ IF msg.from \in Callers
               THEN /\ call' = [call EXCEPT ![msg.from].reply = hret]
                    /\ sent' = sent
               ELSE /\ sent' = [sent EXCEPT ![cur] = Append(@, hret)]
                    /\ call' = call
            /\ UNCHANGED <<running, exited>>
    /\ UNCHANGED <<keep_alive, cur, msg, hret, inbox, bussy, hstarted,
                   hfinished, closed, serving>>
    /\ UNCHANGED <<kill_agent, destroyed, todo, hlog>>
    /\ UNCHANGED <<regVars, otherVars, p_default, p_safe, p_methods, sel, cpc>>

(***************************************************************************)
(* The proxy.  A method name is the sequence of its parts, so that a       *)
(* leading underscore can be told: '_hidden' is <<"_", "hidden">>.         *)
(***************************************************************************)
Name(s) == <<s>>

Private(s) == <<"_", s>>

startswith(methodname, prefix) ==
    methodname # <<>> /\ Head(methodname) = prefix

\* the methods the agent exposes when the proxy is created
AgentMethods ==
    {Name("listen"), Name("ready"), Name("run"), Name("get_attr"),
     Name("kill"), Name("safe_call"), Name("set_method"), Name("ping"),
     Name("stop"), Name("loopback"), Name("shutdown")}

\* the names a caller invokes through the proxy
MethodNames == AgentMethods \cup {Private("hidden"), Name("newm")}

\* the methods _pyroInvoke never forwards through safe_call
DirectMethods ==
    {Name("ready"), Name("run"), Name("get_attr"), Name("kill"),
     Name("safe_call")}

\* a variant of the condition that forwards the calls made in unsafe mode
UseSafeCallInverted(safe, pyroMethods, methodname) ==
    /\ ~safe
    /\ methodname \in pyroMethods
    /\ ~startswith(methodname, "_")
    /\ methodname \notin DirectMethods

\* a variant of the condition that leaves 'kill' out of the direct methods
UseSafeCallKill(safe, pyroMethods, methodname) ==
    /\ safe
    /\ methodname \in pyroMethods
    /\ ~startswith(methodname, "_")
    /\ methodname \notin DirectMethods \ {Name("kill")}

\* the condition of Proxy._pyroInvoke
UseSafeCall(safe, pyroMethods, methodname) ==
    /\ safe
    /\ methodname \in pyroMethods
    /\ ~startswith(methodname, "_")
    /\ methodname \notin DirectMethods

\* the remote method Proxy._pyroInvoke invokes, and its arguments
RemoteName(c, methodname) ==
    IF UseSafeCall(p_safe[c], p_methods[c], methodname)
    THEN Name("safe_call") ELSE methodname

RemoteArgs(c, methodname, args) ==
    IF UseSafeCall(p_safe[c], p_methods[c], methodname)
    THEN <<methodname>> \o args ELSE args

\* a variant of Proxy.safe that clears _safe
safe_cleared(c) == [p_safe EXCEPT ![c] = FALSE]

\* Proxy.safe: the property sets _safe
safe(c) == [p_safe EXCEPT ![c] = TRUE]

\* Proxy.unsafe: the property clears _safe
unsafe(c) == [p_safe EXCEPT ![c] = FALSE]

\* a variant of _pyroInvoke without the finally clause
FinallyKeep(c) == p_safe

\* the finally clause of Proxy._pyroInvoke
FinallyReset(c) == [p_safe EXCEPT ![c] = p_default[c]]

\* Proxy._pyroInvoke after the call: set_method adds the new names
AddMethods(c) ==
    IF call[c].method = Name("set_method")
    THEN [p_methods EXCEPT ![c] = p_methods[c] \cup
                                     {call[c].args[i] : i \in DOMAIN call[c].args}]
    ELSE p_methods

\* the mode the caller asked for: the modifier if one was applied, else the
\* default of the proxy
WantSafe(c) == IF sel[c] = "default" THEN p_default[c] ELSE sel[c] = "safe"

NoCall ==
    [method |-> <<>>, args |-> <<>>, remote |-> <<>>, rargs |-> <<>>,
     wantsafe |-> FALSE, during |-> 0, early |-> FALSE, reply |-> ""]

Done == {"returned", "raised"}

\* Proxy.__init__: _default_safe is the argument or the environment's
\* default, _safe starts equal to it
InitProxies(defaults, methods) ==
    /\ p_default \in defaults
    /\ p_safe = p_default
    /\ p_methods \in methods
    /\ sel = [c \in Callers |-> "default"]
    /\ cpc = [c \in Callers |-> "idle"]
    /\ call = [c \in Callers |-> NoCall]

\* proxy.safe
Safe(c) ==
    /\ cpc[c] = "idle"
    /\ p_safe' = safe(c)
    /\ sel' = [sel EXCEPT ![c] = "safe"]
    /\ UNCHANGED <<p_default, p_methods, cpc, call>>
    /\ UNCHANGED <<regVars, otherVars, loopVars, ctlVars>>

\* proxy.unsafe
Unsafe(c) ==
    /\ cpc[c] = "idle"
    /\ p_safe' = unsafe(c)
    /\ sel' = [sel EXCEPT ![c] = "unsafe"]
    /\ UNCHANGED <<p_default, p_methods, cpc, call>>
    /\ UNCHANGED <<regVars, otherVars, loopVars, ctlVars>>

\* Proxy._pyroInvoke: the request is sent to the agent's daemon
Invoke(c, methodname, args) ==
    /\ cpc[c] = "idle"
    /\ cpc' = [cpc EXCEPT ![c] = "sent"]
    /\ call' = [call EXCEPT ![c] =
                  [method |-> methodname, args |-> args,
                   remote |-> RemoteName(c, methodname),
                   rargs |-> RemoteArgs(c, methodname, args),
                   wantsafe |-> WantSafe(c), during |-> CurrentHandler,
                   early |-> FALSE, reply |-> ""]]
    /\ UNCHANGED <<p_default, p_safe, p_methods, sel>>
    /\ UNCHANGED <<regVars, otherVars, loopVars, ctlVars>>

\* Proxy._pyroInvoke: the remote call returned or raised; finally resets
\* _safe, and a call that returned may extend _pyroMethods
Finish(c, outcome) ==
    /\ cpc' = [cpc EXCEPT ![c] = outcome]
    /\ p_safe' = FinallyReset(c)
    /\ p_methods' = IF outcome = "returned" THEN AddMethods(c) ELSE p_methods
    /\ sel' = [sel EXCEPT ![c] = "default"]
    /\ UNCHANGED p_default

\* the caller goes on after its invocation
Proceed(c) ==
    /\ cpc[c] \in Done
    /\ cpc' = [cpc EXCEPT ![c] = "idle"]
    /\ call' = [call EXCEPT ![c] = NoCall]
    /\ UNCHANGED <<p_default, p_safe, p_methods, sel>>
    /\ UNCHANGED <<regVars, otherVars, loopVars, ctlVars>>

(***************************************************************************)
(* The agent's side of a remote call.  The Pyro daemon of the agent is of  *)
(* server type 'multiplex': one thread serves the requests of all the      *)
(* proxies, one request at a time (run() alone, being oneway, gets a       *)
(* thread of its own).  A method invoked directly runs on that thread,     *)
(* next to the loop thread.                                                *)
(***************************************************************************)
\* BaseAgent.safe_call: the method and its arguments are sent as a request
\* on the loopback socket, and the daemon thread waits for the reply; as
\* BaseAgent.loopback does, it raises when the loop is not running
safe_call(c) ==
    IF ~running
    THEN /\ cpc' = [cpc EXCEPT ![c] = "refused"]
         /\ UNCHANGED <<inbox, serving>>
    ELSE /\ cpc' = [cpc EXCEPT ![c] = "waiting"]
         /\ inbox' = [inbox EXCEPT ![LoopbackSocket] =
                         Append(@, Message("CALL", dumps("call"), c))]
         /\ serving' = c

\* the daemon takes the next request and invokes the remote method; the
\* request loop of Agent.run ends once kill_agent is set
Serve(c) ==
    /\ serving = 0
    /\ ~kill_agent
    /\ cpc[c] = "sent"
    /\ IF call[c].remote = Name("safe_call")
       THEN safe_call(c)
       ELSE /\ cpc' = [cpc EXCEPT ![c] = "direct"]
            /\ serving' = c
            /\ UNCHANGED inbox
    /\ UNCHANGED <<running, keep_alive, lpc, events, cur, msg, hret, bussy,
                   hstarted, hfinished, closed>>
    /\ UNCHANGED <<regVars, otherVars, p_default, p_safe, p_methods, sel, call, ctlVars>>

\* the loop thread finishes the body of a safe call; the reply is what
\* iterate sends next
CallEnd ==
    /\ InCall
    /\ hret' = "OK"
    /\ todo' = <<>>
    /\ lpc' = "after"
    /\ UNCHANGED <<running, keep_alive, events, cur, msg, inbox, bussy,
                   hstarted, hfinished, closed, serving>>
    /\ UNCHANGED <<awaiting, kill_agent, destroyed, exited, hlog, sent>>
    /\ UNCHANGED <<regVars, otherVars, callVars>>

\* the methods whose body is followed step by step further below
ControlMethods ==
    {Name("ping"), Name("stop"), Name("loopback"), Name("shutdown"),
     Name("kill"), Name("run")}

\* the call returned while the handler it was issued in is still in progress
Early(c) == call[c].during # 0 /\ CurrentHandler = call[c].during

\* a method invoked directly returns, and so does the invocation
DirectReturn(c) ==
    /\ cpc[c] = "direct"
    /\ call[c].remote \notin ControlMethods
    /\ Finish(c, "returned")
    /\ call' = [call EXCEPT ![c].early = Early(c)]
    /\ serving' = 0
    /\ UNCHANGED <<running, keep_alive, lpc, events, cur, msg, hret, inbox,
                   bussy, hstarted, hfinished, closed>>
    /\ UNCHANGED <<regVars, otherVars, ctlVars>>

\* the reply of the loop arrives: safe_call returns, and so does the
\* invocation
SafeReturn(c) ==
    /\ cpc[c] = "waiting"
    /\ call[c].reply # ""
    /\ Finish(c, "returned")
    /\ call' = [call EXCEPT ![c].early = Early(c)]
    /\ serving' = 0
    /\ UNCHANGED <<running, keep_alive, lpc, events, cur, msg, hret, inbox,
                   bussy, hstarted, hfinished, closed>>
    /\ UNCHANGED <<regVars, otherVars, ctlVars>>

\* safe_call raised because the loop is not running: the invocation raises
SafeRefused(c) ==
    /\ cpc[c] = "refused"
    /\ Finish(c, "raised")
    /\ call' = [call EXCEPT ![c].early = Early(c)]
    /\ UNCHANGED <<regVars, otherVars, loopVars, ctlVars>>

\* another agent pushes a message to a PULL socket of the agent
Push ==
    /\ \E s \in DOMAIN inbox :
          /\ s \in DOMAIN sockinfo
          /\ sockinfo[s].kind = "PULL"
          /\ hstarted + Len(inbox[s]) < MaxMsgs
          /\ inbox' = [inbox EXCEPT ![s] = Append(@, Message("DATA", dumps("hello"), 0))]
    /\ UNCHANGED <<running, keep_alive, lpc, events, cur, msg, hret, bussy,
                   hstarted, hfinished, closed, serving>>
    /\ UNCHANGED <<regVars, otherVars, callVars, ctlVars>>

\* the worker of tests/test_proxy.py: a PULL socket handled by stay_bussy
BussyWorker ==
    bind(NewAgent, "PULL", StrKey("pull"), HFunc("stay_bussy"), 1, FALSE).R

\* a caller invokes listen() through its proxy
InvokeListen ==
    \E c \in Callers :
        /\ Name("listen") \in p_methods[c]
        /\ Invoke(c, Name("listen"), <<>>)

InitCall ==
    /\ InitRegistry(BussyWorker)
    /\ InitLoop(BussyWorker)
    /\ InitProxies([Callers -> BOOLEAN], {[c \in Callers |-> AgentMethods]})
    /\ InitTimer
    /\ tseen = <<>>

NextCall ==
    \/ Run
    \/ LoopTest
    \/ Poll
    \/ PollInterrupted
    \/ PollFailed
    \/ Dispatch
    \/ HandlerEnd
    \/ Reply
    \/ CallEnd
    \/ Push
    \/ \E c \in Callers : Safe(c)
    \/ \E c \in Callers : Unsafe(c)
    \/ InvokeListen
    \/ \E c \in Callers : Serve(c)
    \/ \E c \in Callers : DirectReturn(c)
    \/ \E c \in Callers : SafeReturn(c)
    \/ \E c \in Callers : SafeRefused(c)
    \/ \E c \in Callers : Proceed(c)

SpecCall == InitCall /\ [][NextCall]_vars

(***************************************************************************)
(* The proxy on its own: one proxy invokes any name, and the remote end    *)
(* answers by returning or by raising.                                     *)
(***************************************************************************)
\* the caller whose proxy is exercised
TheCaller == {1}

\* the arguments of an invocation: the functions passed to set_method
ArgsOf(methodname) ==
    IF methodname = Name("set_method") THEN {<<>>, <<Name("newm")>>}
    ELSE {<<>>}

InvokeAny ==
    \E c \in TheCaller, methodname \in MethodNames :
        \E args \in ArgsOf(methodname) :
            /\ cpc[c] = "idle"
            /\ Invoke(c, methodname, args)

\* the remote call returns or raises
RemoteDone ==
    \E c \in TheCaller, outcome \in Done :
        /\ cpc[c] = "sent"
        /\ Finish(c, outcome)
        /\ UNCHANGED call
        /\ UNCHANGED <<regVars, otherVars, loopVars, ctlVars>>

InitInvoke ==
    /\ InitRegistry(NewAgent)
    /\ InitLoop(NewAgent)
    /\ InitProxies({[c \in Callers |-> b] : b \in BOOLEAN},
                   {[c \in Callers |-> ms] :
                       ms \in {AgentMethods,
                               AgentMethods \cup {Private("hidden")}}})
    /\ InitTimer
    /\ tseen = <<>>

NextInvoke ==
    \/ \E c \in TheCaller : Safe(c)
    \/ \E c \in TheCaller : Unsafe(c)
    \/ InvokeAny
    \/ RemoteDone
    \/ \E c \in TheCaller : Proceed(c)

SpecInvoke == InitInvoke /\ [][NextInvoke]_vars

InitReg ==
    /\ InitRegistry(NewAgent)
    /\ InitLoop(NewAgent)
    /\ InitProxies({[c \in Callers |-> FALSE]},
                   {[c \in Callers |-> AgentMethods]})
    /\ InitTimer
    /\ tseen = <<>>

NextReg ==
    \/ Bind
    \/ BindLoopbackName
    \/ Connect
    \/ ConnectRefused
    \/ Register
    \/ Subscribe

SpecReg == InitReg /\ [][NextReg]_vars

\* the calls that register client addresses: connect, and register with a
\* socket of the caller
NextConnect ==
    \/ Connect
    \/ ConnectRefused
    \/ Register

SpecConnect == InitReg /\ [][NextConnect]_vars

(***************************************************************************)
(* The control methods.  A caller with an unsafe proxy invokes ping, stop, *)
(* loopback, shutdown, kill and run; the daemon thread executes their      *)
(* bodies next to the loop thread, a statement at a time where the loop    *)
(* can interleave.                                                         *)
(***************************************************************************)
\* the header the method in progress sends on the loopback channel
Header(c) ==
    CASE call[c].remote = Name("ping") -> "PING"
      [] call[c].remote = Name("stop") -> "STOP"
      [] call[c].remote = Name("shutdown") -> "STOP"
      [] OTHER -> call[c].args[1][1]

\* BaseAgent.loopback up to recv: NotImplementedError unless the loop is
\* running, else a REQ socket sends (header, data) to 'inproc://loopback'
loopback(c, sentpc) ==
    IF ~running
    THEN /\ Finish(c, "raised")
         /\ call' = [call EXCEPT ![c].early = Early(c)]
         /\ serving' = 0
         /\ UNCHANGED inbox
    ELSE /\ cpc' = [cpc EXCEPT ![c] = sentpc]
         /\ inbox' = [inbox EXCEPT ![LoopbackSocket] =
                         Append(@, Message(Header(c), dumps(Header(c)), c))]
         /\ UNCHANGED <<p_default, p_safe, p_methods, sel, call, serving>>

\* ping(), stop() and loopback(header): the request is sent
Loopback(c) ==
    /\ cpc[c] = "direct"
    /\ call[c].remote \in {Name("ping"), Name("stop"), Name("loopback")}
    /\ loopback(c, "lbwait")
    /\ UNCHANGED <<running, keep_alive, lpc, events, cur, msg, hret, bussy,
                   hstarted, hfinished, closed>>
    /\ UNCHANGED <<regVars, otherVars, ctlVars>>

\* BaseAgent.loopback: recv returns the reply, and so does the invocation
LoopbackReturn(c) ==
    /\ cpc[c] = "lbwait"
    /\ call[c].reply # ""
    /\ Finish(c, "returned")
    /\ call' = [call EXCEPT ![c].early = Early(c)]
    /\ serving' = 0
    /\ UNCHANGED <<running, keep_alive, lpc, events, cur, msg, hret, inbox,
                   bussy, hstarted, hfinished, closed>>
    /\ UNCHANGED <<regVars, otherVars, ctlVars>>

\* BaseAgent.shutdown: `if self.running`
ShutdownTest(c) ==
    /\ cpc[c] = "direct"
    /\ call[c].remote = Name("shutdown")
    /\ cpc' = [cpc EXCEPT ![c] = IF running THEN "sd_lb" ELSE "sd_wait"]
    /\ UNCHANGED <<p_default, p_safe, p_methods, sel, call>>
    /\ UNCHANGED <<regVars, otherVars, loopVars, ctlVars>>

\* BaseAgent.shutdown: self.loopback('STOP'), up to recv
ShutdownStop(c) ==
    /\ cpc[c] = "sd_lb"
    /\ loopback(c, "sd_stop")
    /\ UNCHANGED <<running, keep_alive, lpc, events, cur, msg, hret, bussy,
                   hstarted, hfinished, closed>>
    /\ UNCHANGED <<regVars, otherVars, ctlVars>>

\* BaseAgent.shutdown: the reply to STOP arrived
ShutdownStopped(c) ==
    /\ cpc[c] = "sd_stop"
    /\ call[c].reply # ""
    /\ cpc' = [cpc EXCEPT ![c] = "sd_wait"]
    /\ UNCHANGED <<p_default, p_safe, p_methods, sel, call>>
    /\ UNCHANGED <<regVars, otherVars, loopVars, ctlVars>>

\* BaseAgent.shutdown: `while self.running` ends
ShutdownWait(c) ==
    /\ cpc[c] = "sd_wait"
    /\ ~running
    /\ cpc' = [cpc EXCEPT ![c] = "sd_destroy"]
    /\ UNCHANGED <<p_default, p_safe, p_methods, sel, call>>
    /\ UNCHANGED <<regVars, otherVars, loopVars, ctlVars>>

\* BaseAgent.shutdown: self.kill() destroys the context
ShutdownKill(c) ==
    /\ cpc[c] = "sd_destroy"
    /\ destroyed' = TRUE
    /\ cpc' = [cpc EXCEPT ![c] = "sd_kill"]
    /\ UNCHANGED <<awaiting, kill_agent, exited, todo, hlog, sent>>
    /\ UNCHANGED <<p_default, p_safe, p_methods, sel, call>>
    /\ UNCHANGED <<regVars, otherVars, loopVars>>

\* BaseAgent.kill: self.context.destroy()
Kill(c) ==
    /\ cpc[c] = "direct"
    /\ call[c].remote = Name("kill")
    /\ destroyed' = TRUE
    /\ cpc' = [cpc EXCEPT ![c] = "sd_kill"]
    /\ UNCHANGED <<awaiting, kill_agent, exited, todo, hlog, sent>>
    /\ UNCHANGED <<p_default, p_safe, p_methods, sel, call>>
    /\ UNCHANGED <<regVars, otherVars, loopVars>>

\* BaseAgent.kill: self.kill_agent = True, and the invocation returns
KillEnd(c) ==
    /\ cpc[c] = "sd_kill"
    /\ kill_agent' = TRUE
    /\ Finish(c, "returned")
    /\ call' = [call EXCEPT ![c].early = Early(c)]
    /\ serving' = 0
    /\ UNCHANGED <<running, keep_alive, lpc, events, cur, msg, hret, inbox,
                   bussy, hstarted, hfinished, closed>>
    /\ UNCHANGED <<awaiting, destroyed, exited, todo, hlog, sent>>
    /\ UNCHANGED <<regVars, otherVars>>

\* run(), a oneway call: Pyro starts a thread for it and the invocation
\* returns
RunCalled(c) ==
    /\ cpc[c] = "direct"
    /\ call[c].remote = Name("run")
    /\ lpc \in {"stopped", "crashed"}
    /\ lpc' = "new"
    /\ Finish(c, "returned")
    /\ call' = [call EXCEPT ![c].early = Early(c)]
    /\ serving' = 0
    /\ UNCHANGED <<running, keep_alive, events, cur, msg, hret, inbox,
                   bussy, hstarted, hfinished, closed>>
    /\ UNCHANGED <<regVars, otherVars, ctlVars>>

\* the messages received so far and those waiting in the sockets
Traffic == hstarted + Len(inbox[LoopbackSocket])

\* what a caller invokes: the control methods and their arguments
CtlCalls ==
    {<<Name("ping"), <<>>>>, <<Name("stop"), <<>>>>,
     <<Name("loopback"), <<Name("CLOSE")>>>>,
     <<Name("loopback"), <<Name("FOO")>>>>,
     <<Name("shutdown"), <<>>>>, <<Name("kill"), <<>>>>,
     <<Name("run"), <<>>>>}

\* the caller invokes a control method; run() is invoked again once the
\* thread of the previous run() has ended
InvokeCtl ==
    \E c \in TheCaller, mc \in CtlCalls :
        /\ mc[1] \in {Name("ping"), Name("stop"), Name("loopback")}
              => Traffic < MaxMsgs
        /\ mc[1] = Name("run") => lpc \in {"stopped", "crashed"}
        /\ Invoke(c, mc[1], mc[2])

\* what the agent binds while it runs: a PULL socket with a handler, a PUB
\* socket as its logger, PUSH sockets under the names of the loopback
\* socket
CtlBindArgs ==
    {<<"PULL", StrKey("a"), HFunc("h1")>>, <<"PUB", LogAlias, HNone>>,
     <<"PUSH", LoopbackAlias, HNone>>, <<"PUSH", LoopbackAddress, HNone>>}

\* agent.bind(kind, alias, handler) through the unsafe proxy; the port is
\* the free one that bind_to_random_port finds
CtlBind ==
    \E b \in CtlBindArgs :
        LET res == bind(Registry, b[1], b[2], b[3], NewSocket(Registry), FALSE)
        IN  /\ serving = 0
            /\ ~kill_agent
            /\ WithinBounds(res.R)
            /\ Commit(res, "bind")

InitCtl ==
    /\ InitRegistry(NewAgent)
    /\ InitLoop(NewAgent)
    /\ InitProxies({[c \in Callers |-> FALSE]},
                   {[c \in Callers |-> AgentMethods]})
    /\ InitTimer
    /\ tseen = <<>>

NextCtl ==
    \/ Run
    \/ LoopTest
    \/ Poll
    \/ PollInterrupted
    \/ PollFailed
    \/ Dispatch
    \/ HandlerEnd
    \/ HandlerRaise
    \/ Reply
    \/ Push
    \/ CtlBind
    \/ InvokeCtl
    \/ \E c \in TheCaller : Serve(c)
    \/ \E c \in TheCaller : Loopback(c)
    \/ \E c \in TheCaller : LoopbackReturn(c)
    \/ \E c \in TheCaller : ShutdownTest(c)
    \/ \E c \in TheCaller : ShutdownStop(c)
    \/ \E c \in TheCaller : ShutdownStopped(c)
    \/ \E c \in TheCaller : ShutdownWait(c)
    \/ \E c \in TheCaller : ShutdownKill(c)
    \/ \E c \in TheCaller : Kill(c)
    \/ \E c \in TheCaller : KillEnd(c)
    \/ \E c \in TheCaller : RunCalled(c)
    \/ \E c \in TheCaller : Proceed(c)

SpecCtl == InitCtl /\ [][NextCtl]_vars

(***************************************************************************)
(* Dispatch to the handlers.  The agent has one socket besides the         *)
(* loopback one, bound with a handler, a list of handlers or a dict of     *)
(* topics; its peers send requests, push messages and publish.             *)
(***************************************************************************)
\* the handlers given to bind for a REP socket: h1 returns None, h2 returns
\* a value, rep_handler sends the reply itself, rep_both sends and returns
RepHandlers ==
    {HFunc("h2"), HFunc("rep_handler"), HFunc("rep_both"),
     HList(<<"h1", "h2">>), HList(<<"h2", "h1">>), HList(<<>>),
     HList(<<"rep_handler", "rep_handler">>)}

PullHandlers == {HFunc("h1"), HList(<<"h1", "h2">>)}

SubHandlers ==
    {HDict(<<"A", "">>, <<"hA", "hT">>), HDict(<<"A">>, <<"hA">>),
     HFunc("h1")}

\* the agents after agent.bind(kind, alias, handler)
MsgWorkers ==
    {bind(NewAgent, "REP", StrKey("reply"), h, 1, FALSE).R : h \in RepHandlers}
        \cup
    {bind(NewAgent, "PULL", StrKey("a"), h, 1, FALSE).R : h \in PullHandlers}
        \cup
    {bind(NewAgent, "SUB", StrKey("sub"), h, 1, FALSE).R : h \in SubHandlers}

\* a peer sends a request to a REP socket of the agent
Request ==
    /\ \E s \in (DOMAIN sockinfo) \ {LoopbackSocket} :
          /\ sockinfo[s].kind = "REP"
          /\ hstarted + Len(inbox[s]) < MaxMsgs
          /\ inbox' = [inbox EXCEPT ![s] =
                          Append(@, Message("REQ", dumps("hello"), 0))]
    /\ UNCHANGED <<running, keep_alive, lpc, events, cur, msg, hret, bussy,
                   hstarted, hfinished, closed, serving>>
    /\ UNCHANGED <<regVars, otherVars, callVars, ctlVars>>

\* the topics a publisher sends with
PubTopics == {"A/x", "B"}

\* a peer publishes with agent.send(alias, 'm', topic): zmq delivers the
\* frame to a SUB socket that subscribed to a prefix of it
Publish ==
    /\ \E s \in DOMAIN sockinfo, t \in PubTopics :
          /\ sockinfo[s].kind = "SUB"
          /\ \E p \in subs[s] :
                SubSeq(Frame(t, "m"), 1, Len(str2bytes(p))) = str2bytes(p)
          /\ hstarted + Len(inbox[s]) < MaxMsgs
          /\ inbox' = [inbox EXCEPT ![s] =
                          Append(@, Message("PUB", Frame(t, "m"), 0))]
    /\ UNCHANGED <<running, keep_alive, lpc, events, cur, msg, hret, bussy,
                   hstarted, hfinished, closed, serving>>
    /\ UNCHANGED <<regVars, otherVars, callVars, ctlVars>>

\* frames that are not `topic + pickle.dumps(message, -1)`: bytes without
\* the PROTO opcode, a stream of an unsupported protocol (pickle.loads
\* raises ValueError) and a truncated stream (EOFError)
Malformed(kind) ==
    IF kind = "SUB"
    THEN {<<"A", "junk">>, <<"A", "x80", "badproto">>, <<"A", "x80", "trunc">>}
    ELSE {<<"junk">>, <<"x80", "badproto">>, <<"x80", "trunc">>}

\* a peer that is not an osbrain agent sends such a frame; socket.recv()
\* of iterate returns whatever bytes arrived
PeerBytes ==
    /\ \E s \in (DOMAIN sockinfo) \ {LoopbackSocket} :
          \E d \in Malformed(sockinfo[s].kind) :
             /\ sockinfo[s].kind \in {"REP", "PULL", "SUB"}
             /\ sockinfo[s].kind = "SUB" =>
                   \E p \in subs[s] : bytes_startswith(d, str2bytes(p))
             /\ hstarted + Len(inbox[s]) < MaxMsgs
             /\ inbox' = [inbox EXCEPT ![s] = Append(@, Message("RAW", d, 0))]
    /\ UNCHANGED <<running, keep_alive, lpc, events, cur, msg, hret, bussy,
                   hstarted, hfinished, closed, serving>>
    /\ UNCHANGED <<regVars, otherVars, callVars, ctlVars>>

\* agent.subscribe('sub', {'B': hB}), between two dispatches
SubAgain ==
    LET res == subscribe(Registry, StrKey("sub"), HDict(<<"B">>, <<"hB">>))
    IN  /\ lpc \notin {"recv", "handler", "after"}
        /\ Commit(res, "subscribe")

InitMsg ==
    /\ \E R \in MsgWorkers : InitRegistry(R)
    /\ InitLoop(NewAgent)
    /\ InitProxies({[c \in Callers |-> FALSE]},
                   {[c \in Callers |-> AgentMethods]})
    /\ InitTimer
    /\ tseen = <<>>

NextMsg ==
    \/ Run
    \/ LoopTest
    \/ Poll
    \/ PollInterrupted
    \/ PollFailed
    \/ Dispatch
    \/ DispatchSub
    \/ HandlerEnd
    \/ HandlerRaise
    \/ Reply
    \/ Request
    \/ Push
    \/ Publish
    \/ PeerBytes
    \/ SubAgain

SpecMsg == InitMsg /\ [][NextMsg]_vars

(***************************************************************************)
(* run() invoked while a thread executes run().  run() is oneway and tests *)
(* nothing: Pyro starts one more thread, which executes the same loop on   *)
(* the same agent.  One of the two threads is the scheduled one, whose     *)
(* state the variables of the loop hold; the state of the other one is     *)
(* `parked`.                                                               *)
(***************************************************************************)
\* the scheduled thread, as a value
ThisThread ==
    [lpc |-> lpc, events |-> events, cur |-> cur, msg |-> msg,
     hret |-> hret, todo |-> todo, hlog |-> hlog]

\* run(), while the thread of an earlier run() exists: one more thread
RunAgain(c) ==
    /\ cpc[c] = "direct"
    /\ call[c].remote = Name("run")
    /\ lpc \notin {"stopped", "crashed"}
    /\ parked.lpc = "none"
    /\ parked' = [NoThread EXCEPT !.lpc = "new"]
    /\ Finish(c, "returned")
    /\ call' = [call EXCEPT ![c].early = Early(c)]
    /\ serving' = 0
    /\ UNCHANGED <<running, keep_alive, lpc, events, cur, msg, hret, inbox,
                   bussy, hstarted, hfinished, closed>>
    /\ UNCHANGED <<regVars, timerVars, tseen, ctlVars>>

\* the operating system schedules the other thread
Switch ==
    /\ parked.lpc \notin {"none", "stopped", "crashed"}
    /\ lpc' = parked.lpc
    /\ events' = parked.events
    /\ cur' = parked.cur
    /\ msg' = parked.msg
    /\ hret' = parked.hret
    /\ todo' = parked.todo
    /\ hlog' = parked.hlog
    /\ parked' = ThisThread
    /\ UNCHANGED <<running, keep_alive, inbox, bussy, hstarted, hfinished,
                   closed, serving>>
    /\ UNCHANGED <<awaiting, kill_agent, destroyed, exited, sent>>
    /\ UNCHANGED <<regVars, callVars, timerVars, tseen>>

\* a caller invokes run() through its proxy, at any time
InvokeRun ==
    \E c \in TheCaller :
        /\ lpc \in {"stopped", "crashed"} \/ parked.lpc = "none"
        /\ Invoke(c, Name("run"), <<>>)

InitRuns ==
    /\ InitRegistry(BussyWorker)
    /\ InitLoop(BussyWorker)
    /\ InitProxies({[c \in Callers |-> FALSE]},
                   {[c \in Callers |-> AgentMethods]})
    /\ InitTimer
    /\ tseen = <<>>

NextRuns ==
    \/ Run
    \/ LoopTest
    \/ Poll
    \/ PollInterrupted
    \/ PollFailed
    \/ Dispatch
    \/ HandlerEnd
    \/ HandlerRaise
    \/ Reply
    \/ Push
    \/ InvokeRun
    \/ Switch
    \/ \E c \in TheCaller : Serve(c)
    \/ \E c \in TheCaller : RunCalled(c)
    \/ \E c \in TheCaller : RunAgain(c)
    \/ \E c \in TheCaller : Proceed(c)

SpecRuns == InitRuns /\ [][NextRuns]_vars

(***************************************************************************)
(* The loopback channel on its own.  Threads of the agent's process call   *)
(* self.loopback(header); no signal interrupts the poll and no socket      *)
(* fails.                                                                  *)
(***************************************************************************)
\* the headers the threads send
LoopbackHeaders == {"PING", "STOP", "FOO"}

\* BaseAgent.loopback, called by a thread that is not the daemon's: it
\* raises unless the loop is running, else a new REQ socket sends the
\* request; the reply is recorded in `sent`
LocalLoopback ==
    /\ running
    /\ Traffic < MaxMsgs
    /\ \E h \in LoopbackHeaders :
          inbox' = [inbox EXCEPT ![LoopbackSocket] =
                       Append(@, Message(h, dumps(h), 0))]
    /\ UNCHANGED <<running, keep_alive, lpc, events, cur, msg, hret, bussy,
                   hstarted, hfinished, closed, serving>>
    /\ UNCHANGED <<regVars, otherVars, callVars, ctlVars>>

InitLoopback ==
    /\ InitRegistry(NewAgent)
    /\ InitLoop(NewAgent)
    /\ InitProxies({[c \in Callers |-> FALSE]},
                   {[c \in Callers |-> AgentMethods]})
    /\ InitTimer
    /\ tseen = <<>>

NextLoopback ==
    \/ Run
    \/ LoopTest
    \/ Poll
    \/ Dispatch
    \/ HandlerEnd
    \/ Reply
    \/ LocalLoopback

\* the loop thread is scheduled: a step of it that stays possible is taken
FairLoop ==
    /\ WF_vars(Run)
    /\ WF_vars(LoopTest)
    /\ WF_vars(Poll)
    /\ WF_vars(Dispatch)
    /\ WF_vars(HandlerEnd)
    /\ WF_vars(Reply)

SpecLoopback == InitLoopback /\ [][NextLoopback]_vars /\ FairLoop

(***************************************************************************)
(* STOP and PING from two threads: the daemon thread, for a caller's       *)
(* proxy, and a thread of the agent's process.  No signal interrupts the   *)
(* poll and no socket fails.                                               *)
(***************************************************************************)
\* the headers of ping() and stop()
StopHeaders == {"PING", "STOP"}

\* self.ping() or self.stop(), called by a thread that is not the daemon's
LocalStop ==
    /\ running
    /\ Traffic < MaxMsgs
    /\ \E h \in StopHeaders :
          inbox' = [inbox EXCEPT ![LoopbackSocket] =
                       Append(@, Message(h, dumps(h), 0))]
    /\ UNCHANGED <<running, keep_alive, lpc, events, cur, msg, hret, bussy,
                   hstarted, hfinished, closed, serving>>
    /\ UNCHANGED <<regVars, otherVars, callVars, ctlVars>>

\* the caller invokes ping() or stop() through its unsafe proxy
InvokeStop ==
    \E c \in TheCaller, m \in {"ping", "stop"} :
        /\ Traffic < MaxMsgs
        /\ Invoke(c, Name(m), <<>>)

NextStops ==
    \/ Run
    \/ LoopTest
    \/ Poll
    \/ Dispatch
    \/ HandlerEnd
    \/ Reply
    \/ LocalStop
    \/ InvokeStop
    \/ \E c \in TheCaller : Serve(c)
    \/ \E c \in TheCaller : Loopback(c)
    \/ \E c \in TheCaller : LoopbackReturn(c)
    \/ \E c \in TheCaller : Proceed(c)

\* the loop thread and the daemon thread are scheduled
FairStops ==
    /\ FairLoop
    /\ \A c \in TheCaller :
          /\ WF_vars(Serve(c))
          /\ WF_vars(Loopback(c))
          /\ WF_vars(LoopbackReturn(c))

SpecStops == InitLoopback /\ [][NextStops]_vars /\ FairStops

(***************************************************************************)
(* Requests of peers and requests on the loopback channel together: a poll *)
(* can report the loopback socket and the worker's socket in one           *)
(* iteration.                                                              *)
(***************************************************************************)
NextMixed ==
    \/ NextMsg
    \/ LocalLoopback

SpecMixed == InitMsg /\ [][NextMixed]_vars

(***************************************************************************)
(* The timer.  osbrain/common.py (repeat) and BaseAgent.each/after are not *)
(* part of the sources; the timer is the one spec.md 4.5 describes: an     *)
(* independent unit of execution that sleeps, invokes the callback and,    *)
(* when repeating, reschedules itself for the period after the time at     *)
(* which the callback began.  Time is a counter of ticks.                  *)
(***************************************************************************)
\* the delays and periods a timer is scheduled with
Periods == 0 .. MaxPeriod

\* the durations of a callback
Durations == 0 .. MaxDur

\* a variant that runs the first firing in the calling thread
SchedulesInline(t, delay) == [due |-> Never, inline |-> TRUE]

\* scheduleOnce/scheduleRepeating: the unit is created asleep until the
\* delay or period has passed, and no callback runs in the calling thread
Schedules(t, delay) == [due |-> t + delay, inline |-> FALSE]

\* a variant that reschedules when the firing begins
RearmAtFire(phase, start, old) ==
    IF phase = "fire" THEN start + tperiod ELSE old

\* the unit of a repeating timer after a firing began (phase "fire") and
\* after it completed (phase "complete"): it reschedules itself once the
\* callback returned, for the period after the time the callback began
Rearm(phase, start, old) ==
    IF phase = "complete" THEN start + tperiod ELSE Never

\* a variant that close() does not stop
ArmedAfterClose == due # Never

\* the unit wakes up for a firing unless close() cancelled it
Armed == due # Never /\ ~cancelled

TimerFrame ==
    UNCHANGED <<regVars, loopVars, callVars, ctlVars, parked, tseen>>

\* scheduleOnce(delay, callback) and scheduleRepeating(period, callback)
Schedule ==
    /\ tcall = "idle"
    /\ \E k \in {"once", "repeating"}, p \in Periods, d \in Durations :
          /\ tkind' = k
          /\ tperiod' = p
          /\ tdur' = d
          /\ IF Schedules(now, p).inline
             THEN /\ tcall' = "firing"
                  /\ inprogress' = 1
                  /\ firings' = 1
                  /\ began' = now
             ELSE /\ tcall' = "returned"
                  /\ UNCHANGED <<inprogress, firings, began>>
          /\ due' = Schedules(now, p).due
    /\ UNCHANGED <<now, completed, cancelled>>
    /\ TimerFrame

\* the unit's sleep is over: the callback is invoked
Fire ==
    /\ Armed
    /\ now >= due
    /\ firings < MaxFirings
    /\ now + tdur <= MaxTime
    /\ inprogress' = inprogress + 1
    /\ firings' = firings + 1
    /\ began' = now
    /\ due' = IF tkind = "repeating" THEN Rearm("fire", now, due) ELSE Never
    /\ UNCHANGED <<now, tcall, tkind, tperiod, tdur, completed, cancelled>>
    /\ TimerFrame

\* the callback returns, tdur after it began at the earliest
Complete ==
    /\ inprogress > 0
    /\ now >= began + tdur
    /\ inprogress' = inprogress - 1
    /\ completed' = completed + 1
    /\ due' = IF tkind = "repeating" THEN Rearm("complete", began, due)
              ELSE due
    /\ tcall' = IF tcall = "firing" THEN "returned" ELSE tcall
    /\ UNCHANGED <<now, tkind, tperiod, tdur, began, firings, cancelled>>
    /\ TimerFrame

\* timer.close() on the handle the scheduling call returned
Close ==
    /\ tcall = "returned"
    /\ ~cancelled
    /\ cancelled' = TRUE
    /\ UNCHANGED <<now, tcall, tkind, tperiod, tdur, due, began, inprogress,
                   firings, completed>>
    /\ TimerFrame

\* time passes
Tick ==
    /\ now < MaxTime
    /\ now' = now + 1
    /\ UNCHANGED <<tcall, tkind, tperiod, tdur, due, began, inprogress,
                   firings, completed, cancelled>>
    /\ TimerFrame

InitTimers ==
    /\ InitRegistry(NewAgent)
    /\ InitLoop(NewAgent)
    /\ InitProxies({[c \in Callers |-> FALSE]},
                   {[c \in Callers |-> AgentMethods]})
    /\ InitTimer
    /\ tseen = <<>>

NextTimers ==
    \/ Schedule
    \/ Fire
    \/ Complete
    \/ Close
    \/ Tick

SpecTimers == InitTimers /\ [][NextTimers]_vars

\* the clock advances and a callback that can return does
SpecTimersFair == SpecTimers /\ WF_vars(Tick) /\ WF_vars(Complete)

(***************************************************************************)
(* Kind, role and address values on their own.  An address has the five    *)
(* fields tests/test_address.py constructs it with.                        *)
(***************************************************************************)
\* AgentAddressTransport
Transports == {"tcp", "ipc", "inproc"}

\* the serializers of test_agent_address_explicit_serializer
Serializers == {"pickle", "raw"}

\* the locations of the tests
Locations == {"addr", "127.0.0.1:1234"}

KindValue(k) ==
    [tag |-> "kind", transport |-> "", address |-> "", kind |-> k,
     role |-> "", serializer |-> ""]

RoleValue(r) ==
    [tag |-> "role", transport |-> "", address |-> "", kind |-> "",
     role |-> r, serializer |-> ""]

\* AgentAddress(transport, address, kind, role, serializer)
AddressValue(t, a, k, r, s) ==
    [tag |-> "address", transport |-> t, address |-> a, kind |-> k,
     role |-> r, serializer |-> s]

Values ==
    {KindValue(k) : k \in Kinds} \cup {RoleValue(r) : r \in Roles} \cup
    {AddressValue(t, a, k, r, s) :
        t \in Transports, a \in Locations, k \in Kinds, r \in Roles,
        s \in Serializers}

\* x.twin() of an AgentAddressKind, an AgentAddressRole or an AgentAddress
TwinOf(x) ==
    CASE x.tag = "kind" -> KindValue(KindTwin(x.kind))
      [] x.tag = "role" -> RoleValue(RoleTwin(x.role))
      [] x.tag = "address" ->
            AddressValue(x.transport, x.address, KindTwin(x.kind),
                         RoleTwin(x.role), x.serializer)

\* a value is constructed
Construct ==
    /\ tseen = <<>>
    /\ \E x \in Values : tseen' = <<x>>
    /\ UNCHANGED <<regVars, loopVars, callVars, ctlVars, parked, timerVars>>

\* twin() of the last value
Twin ==
    /\ tseen # <<>>
    /\ Len(tseen) <= MaxTwins
    /\ tseen' = Append(tseen, TwinOf(tseen[Len(tseen)]))
    /\ UNCHANGED <<regVars, loopVars, callVars, ctlVars, parked, timerVars>>

InitTwin ==
    /\ InitRegistry(NewAgent)
    /\ InitLoop(NewAgent)
    /\ InitProxies({[c \in Callers |-> FALSE]},
                   {[c \in Callers |-> AgentMethods]})
    /\ InitTimer
    /\ tseen = <<>>

NextTwin ==
    \/ Construct
    \/ Twin

SpecTwin == InitTwin /\ [][NextTwin]_vars

\* the loop thread and the daemon thread are scheduled: a step of theirs
\* that stays possible is taken.  Nothing obliges a caller to invoke, a peer
\* to send, a poll to fail or a handler to raise.
FairThreads ==
    /\ WF_vars(Run)
    /\ WF_vars(LoopTest)
    /\ WF_vars(Poll)
    /\ WF_vars(Dispatch)
    /\ WF_vars(HandlerEnd)
    /\ WF_vars(Reply)
    /\ \A c \in TheCaller :
          /\ WF_vars(Serve(c))
          /\ WF_vars(Loopback(c))
          /\ WF_vars(LoopbackReturn(c))

SpecCtlFair == SpecCtl /\ FairThreads

(***************************************************************************)
(* Properties of the safe-call channel and of the proxy.                   *)
(***************************************************************************)
\* the callers whose call, made in safe mode, has its body in execution:
\* on the daemon thread, or on the loop thread
SafeBodies ==
    {c \in Callers :
        /\ call[c].wantsafe
        /\ \/ cpc[c] = "direct"
           \/ cpc[c] = "waiting" /\ InCall /\ msg.from = c}

\* C1: for one agent, at any instant at most one of {a message handler,
\* the body of a safe call} is executing: never two safe-call bodies, never
\* a safe-call body next to a message handler.
C1_MutualExclusion ==
    Cardinality(SafeBodies) + (IF InHandler THEN 1 ELSE 0) <= 1

\* the loop runs the body of one safe call while the safe call of the other
\* caller and a pushed message wait for their turn
C1_Witness ==
    /\ InCall
    /\ call[msg.from].wantsafe
    /\ \E c \in Callers \ {msg.from} : cpc[c] = "sent" /\ call[c].wantsafe
    /\ \E s \in DOMAIN inbox : s # LoopbackSocket /\ inbox[s] # <<>>

\* C2: a call made in safe mode (chosen by .safe or by the proxy's default)
\* while the loop is in a handler does not return before that handler has
\* finished.
C2_SafeCallWaits ==
    \A c \in Callers :
        (cpc[c] \in Done /\ call[c].wantsafe /\ call[c].during # 0)
            => /\ ~call[c].early
               /\ hfinished >= call[c].during

\* both callers, one safe by default and one safe by modifier, made their
\* call during a handler and have it returned
C2_Witness ==
    \E c, d \in Callers :
        /\ p_default[c] /\ ~p_default[d]
        /\ \A x \in {c, d} :
              /\ cpc[x] = "returned"
              /\ call[x].wantsafe
              /\ call[x].during # 0

\* the daemon thread is inside safe_call, waiting for the loop's reply
DaemonWaitsForLoop ==
    /\ serving # 0
    /\ cpc[serving] = "waiting"
    /\ call[serving].reply = ""

\* C3: a call made in unsafe mode while the loop is in a handler returns
\* while that handler is still in progress: as long as the handler runs,
\* the call never has to wait for the loop.
C3_UnsafeNeverWaits ==
    \A c \in Callers :
        (/\ cpc[c] = "sent"
         /\ ~call[c].wantsafe
         /\ call[c].during # 0
         /\ CurrentHandler = call[c].during)
            => ~DaemonWaitsForLoop

\* the proxy wraps the call: safe_call(methodname, *args)
Forwarded(c) ==
    /\ call[c].remote = <<"safe_call">>
    /\ call[c].rargs = <<call[c].method>> \o call[c].args

\* C4: _pyroInvoke forwards a call through 'safe_call' exactly when the
\* proxy is in safe mode, the method is one of _pyroMethods, its name does
\* not start with '_' and is none of ready, run, get_attr, kill, safe_call;
\* otherwise it invokes the method itself.
C4_Routing ==
    \A c \in Callers :
        cpc[c] = "sent" =>
            LET m == call[c].method
                cond == /\ p_safe[c]
                        /\ m \in p_methods[c]
                        /\ m[1] # "_"
                        /\ m \notin {<<"ready">>, <<"run">>, <<"get_attr">>,
                                     <<"kill">>, <<"safe_call">>}
            IN  /\ Forwarded(c) <=> cond
                /\ ~cond => /\ call[c].remote = m
                            /\ call[c].rargs = call[c].args

\* a method added with set_method is invoked in safe mode and forwarded
C4_Witness ==
    \E c \in Callers :
        /\ cpc[c] = "sent"
        /\ call[c].method = <<"newm">>
        /\ Forwarded(c)

\* C5: .safe and .unsafe affect only the next invocation: once an
\* invocation has returned or raised, _safe equals _default_safe again, and
\* _default_safe is never changed.
C5_ModifierScope ==
    /\ [](\A c \in Callers : cpc[c] \in Done => p_safe[c] = p_default[c])
    /\ [][p_default' = p_default]_vars

\* an invocation made with a modifier against the proxy's default has
\* returned or raised
C5_Witness ==
    \E c \in Callers :
        /\ cpc[c] \in Done
        /\ call[c].wantsafe # p_default[c]
        /\ p_safe[c] = p_default[c]

(***************************************************************************)
(* Properties of the registry.  Those about one call are stated for every  *)
(* call that can be made in the current state of the registry.             *)
(***************************************************************************)
\* agent.register of a socket the caller just created
RegisterCall(addr, alias, h) ==
    LET s == NewSocket(Registry)
    IN  register(Created(Registry, s, addr.kind, "user", addr.port),
                 s, addr, alias, h)

\* C6: registering under an alias or an address that is already registered
\* fails with the duplicate-registration error.
C6_DuplicateRejected ==
    \A addr \in RegisterArgs, alias \in AliasArgs :
        (registered(Registry, addr)
            \/ (~Falsy(alias) /\ registered(Registry, alias)))
            => RegisterCall(addr, alias, HNone).err = AlreadyRegistered

\* C7: a request socket bound without a handler fails at bind time.
C7_RequestNeedsHandler ==
    \A alias \in AliasArgs, port \in Ports :
        bind(Registry, "REQ", alias, HNone, port, FALSE).err = HandlerRequired

\* C7 (amended): a reply, pull or subscribe socket bound without a handler
\* fails at bind time with 'This socket requires a handler!' and leaves the
\* registry as it was; a request, push or publish socket needs no handler.
C7_HandlerAtBind ==
    \A kind \in Kinds, alias \in AliasArgs, port \in Ports :
        LET r == bind(Registry, kind, alias, HNone, port, FALSE)
        IN  IF kind \in {"REP", "PULL", "SUB"}
            THEN r.err = HandlerRequired /\ r.R = Registry
            ELSE r.err # HandlerRequired

\* a bind was refused for want of a handler
C7_Witness ==
    /\ last = [op |-> "bind", err |-> HandlerRequired]
    /\ DOMAIN sockinfo = {LoopbackSocket}

\* the callbacks a socket's handler holds
Callbacks(s) == IF s \in DOMAIN handler THEN Len(handler[s].fs) ELSE 0

\* C8: every registered socket of kind request, pull, reply or subscribe has
\* at least one handler callback, after any sequence of bind, connect,
\* register and subscribe.
C8_HandlerPresent ==
    \A k \in DOMAIN socket :
        sockinfo[socket[k]].kind \in {"REQ", "PULL", "REP", "SUB"}
            => Callbacks(socket[k]) >= 1

\* C9: connect with an address whose role is not server fails with the
\* incorrect-address error; the socket, address and handler maps are
\* unchanged and no connection is opened.
C9_ClientAddressRefused ==
    \A addr \in {a \in Addresses : a.role # "server"},
       alias \in AliasArgs, h \in HandlerArgs :
        LET r == connect(Registry, addr, alias, h, FALSE)
        IN  /\ r.err = IncorrectAddress
            /\ r.R = Registry

\* a connect with a client address was refused by an agent that holds a
\* socket of its own
C9_Witness ==
    /\ last = [op |-> "connect", err |-> IncorrectAddress]
    /\ DOMAIN sockinfo # {LoopbackSocket}

\* at most one socket opened by connect per client address
OnePerClientAddress(R) ==
    \A s1, s2 \in DOMAIN R.sockinfo :
        (/\ R.sockinfo[s1].via = "connect"
         /\ R.sockinfo[s2].via = "connect"
         /\ R.sockinfo[s1].kind = R.sockinfo[s2].kind
         /\ R.sockinfo[s1].port = R.sockinfo[s2].port)
            => s1 = s2

\* C10: connections are reused: there is at most one socket per client
\* (twin) address; a connect to a server whose twin address is registered
\* opens no socket, and the new alias resolves to the registered socket and
\* to the same client address.
C10_ConnectionReuse ==
    /\ OnePerClientAddress(Registry)
    /\ \A addr \in {a \in Addresses : a.role = "server"},
          alias \in AliasArgs, h \in HandlerArgs :
          LET r == connect(Registry, addr, alias, h, FALSE)
              twin == AddressTwin(addr)
          IN  /\ OnePerClientAddress(r.R)
              /\ registered(Registry, twin) =>
                    /\ r.R.sockinfo = Registry.sockinfo
                    /\ r.err = "none" =>
                          /\ r.R.socket[alias] = Registry.socket[twin]
                          /\ r.R.address[alias] = twin

\* a second connect to the same server gave the alias 'a' to the socket the
\* first connect opened
C10_Witness ==
    /\ last = [op |-> "connect", err |-> "none"]
    /\ \E ca \in DOMAIN address :
          /\ ca.tag = "addr"
          /\ address[ca] = ca
          /\ StrKey("a") \in DOMAIN address
          /\ address[StrKey("a")] = ca
          /\ socket[StrKey("a")] = socket[ca]
          /\ sockinfo[socket[ca]].via = "connect"

\* C11: when connect reuses a registered client socket (the twin address is
\* registered), passing a handler is an error: the call fails, the socket
\* keeps its handler and no alias is added.
C11_ReuseWithHandlerFails ==
    \A addr \in {a \in Addresses : a.role = "server"},
       alias \in AliasArgs, h \in HandlerArgs \ {HNone} :
        registered(Registry, AddressTwin(addr)) =>
            LET r == connect(Registry, addr, alias, h, FALSE)
            IN  /\ r.err = NewHandlerGiven
                /\ r.R = Registry

\* a connect with a handler was refused by an agent that holds the client
\* socket, with the handler it was given first
C11_Witness ==
    /\ last = [op |-> "connect", err |-> NewHandlerGiven]
    /\ \E ca \in DOMAIN socket :
          /\ ca.tag = "addr"
          /\ ca.role = "client"
          /\ socket[ca] \in DOMAIN handler
          /\ handler[socket[ca]] = HFunc("h1")

\* C12: the registry is dual-keyed: for every alias the agent knows, the
\* alias and the address recorded for it resolve to the same socket, and a
\* registration made without an alias is resolvable by its address.
C12_DualKeyed ==
    /\ \A a \in DOMAIN address :
          /\ a \in DOMAIN socket
          /\ address[a] \in DOMAIN socket
          /\ socket[a] = socket[address[a]]
    /\ \A addr \in RegisterArgs :
          LET r == RegisterCall(addr, NoneKey, HNone)
          IN  r.err = "none" => r.R.socket[addr] = NewSocket(Registry)

(***************************************************************************)
(* Properties of the control commands and of the life of the loop.         *)
(***************************************************************************)
\* the sockets the agent has registered, under any key
RegisteredSockets == {socket[k] : k \in DOMAIN socket}

\* the loop thread has just handled the loopback request with this header
Handled(header) ==
    /\ lpc = "after"
    /\ cur = LoopbackSocket
    /\ msg.hdr = header

\* C13: close_sockets, which the CLOSE command invokes, never closes the
\* loopback socket, whatever was registered and however many CLOSE commands
\* were handled, and it closes every other registered socket: what it
\* closes is the registered sockets less the loopback one, and when CLOSE
\* has just been handled all of them are closed.
C13_CloseSparesLoopback ==
    /\ LoopbackSocket \notin closed
    /\ close_sockets(Registry) = RegisteredSockets \ {LoopbackSocket}
    /\ Handled("CLOSE") => RegisteredSockets \ {LoopbackSocket} \subseteq closed

\* CLOSE has been handled and closed a socket of an agent that registered a
\* socket of its own under a name of the loopback socket
C13_Witness ==
    /\ Handled("CLOSE")
    /\ closed # {}
    /\ \E k \in {LoopbackAlias, LoopbackAddress} : socket[k] \in closed

\* the loop thread leaves the handler of the loopback request with this
\* header, the loop being in its Running state
Handles(header) ==
    /\ InHandler
    /\ cur = LoopbackSocket
    /\ msg.hdr = header
    /\ running
    /\ lpc' # lpc

\* the reply the loop then sends reaches the requester
Answers(header, reply) ==
    (Handled(header) /\ lpc' # lpc) => call'[msg.from].reply = reply

\* C14: while the loop is running, handling PING changes no state and is
\* answered PONG; handling STOP sets keep_alive to false and is answered OK;
\* handling CLOSE invokes close_sockets and is answered OK.
C14_ControlHeaders ==
    [][/\ Handles("PING") =>
            /\ hret' = "PONG"
            /\ UNCHANGED <<regVars, running, keep_alive, closed, kill_agent>>
       /\ Answers("PING", "PONG")
       /\ Handles("STOP") => keep_alive' = FALSE /\ hret' = "OK"
       /\ Answers("STOP", "OK")
       /\ Handles("CLOSE") =>
            /\ closed' = closed \cup close_sockets(Registry)
            /\ hret' = "OK"
       /\ Answers("CLOSE", "OK")]_vars

\* C15: handling a loopback request whose header is none of PING, STOP and
\* CLOSE does not end the loop thread: the loop stays Running, keep_alive
\* stays true, and no socket is closed or unregistered.
C15_UnknownHeader ==
    [][Handles("FOO") =>
          /\ lpc' # "crashed"
          /\ InLoop'
          /\ running'
          /\ keep_alive => keep_alive'
          /\ closed' = closed
          /\ UNCHANGED regVars]_vars

\* C16: Stopped is terminal: once a thread that executed run() has ended
\* (STOP, a poll interruption or an error), the agent never polls its
\* sockets or dispatches a handler again, whatever is invoked later.
C16_StoppedTerminal ==
    exited => lpc \notin {"poll", "recv", "handler", "after"}

\* C17: STOP is cooperative: once the loop has handled STOP (keep_alive is
\* false) running eventually becomes false, and it does not become false
\* before every socket that poll reported in that iteration has been served
\* and the reply to STOP has been sent.
C17_StopCooperative ==
    /\ (running /\ ~keep_alive) ~> ~running
    /\ [][(running /\ ~running' /\ ~keep_alive) =>
            /\ events = <<>>
            /\ LoopbackSocket \notin awaiting]_vars

\* shutdown() of caller c has called kill: the context is destroyed
ShutdownKilled(c) ==
    /\ call[c].remote = Name("shutdown")
    /\ cpc[c] \in {"sd_kill", "returned"}

\* C18: shutdown ordering: under every interleaving of shutdown() with run()
\* and the loop thread, the kill that shutdown() performs (context
\* destroyed, kill_agent set) never takes effect while the loop of the agent
\* is polling or dispatching.
C18_ShutdownOrdering ==
    \A c \in Callers :
        ShutdownKilled(c) => lpc \notin {"poll", "recv", "handler", "after"}

(***************************************************************************)
(* Properties of the dispatch to handlers.                                 *)
(***************************************************************************)
\* the loop thread is going through the handlers of a message received on
\* a socket that is not a SUB socket and has a handler or a list of them
InList ==
    /\ lpc \in {"handler", "after"}
    /\ msg.hdr # "CALL"
    /\ sockinfo[cur].kind # "SUB"
    /\ cur \in DOMAIN handler
    /\ handler[cur].ty \in {"func", "list"}

InDict ==
    /\ lpc \in {"handler", "after"}
    /\ sockinfo[cur].kind = "SUB"
    /\ cur \in DOMAIN handler
    /\ handler[cur].ty = "dict"

\* the bytes p are a prefix of the frame
PrefixOf(p, frame) ==
    /\ Len(p) <= Len(frame)
    /\ \A i \in 1 .. Len(p) : frame[i] = p[i]

\* how many times handler f was called for the message being served
Calls(f) == Cardinality({i \in 1 .. Len(hlog) : hlog[i].fn = f})

Reads(kinds) ==
    /\ lpc = "recv"
    /\ events # <<>>
    /\ sockinfo[Head(events)].kind \in kinds
    /\ Head(inbox[Head(events)]).hdr = "RAW"

\* C21: a malformed payload that arrives on a SUB socket is dropped: the
\* step of the loop that reads it ends no loop thread (no exception leaves
\* the loop), calls no handler, and leaves the agent running.
C21_MalformedDropped ==
    [][Reads({"SUB"}) =>
          /\ exited' = exited
          /\ lpc' \notin {"crashed", "stopped", "handler"}
          /\ hstarted' = hstarted
          /\ running' = running]_vars

\* C22: a frame that cannot be decoded, read from a socket of any kind,
\* is dropped: the step of the loop that reads it ends no loop thread,
\* calls no handler, and leaves the agent running.
C22_DecodeNeverPropagates ==
    [][Reads(Kinds) =>
          /\ exited' = exited
          /\ lpc' \notin {"crashed", "stopped", "handler"}
          /\ hstarted' = hstarted
          /\ running' = running]_vars

(***************************************************************************)
(* Properties of the timer.                                                *)
(***************************************************************************)
\* C23: scheduling a timer does not block the caller: for every delay or
\* period (zero included) and every callback duration, no execution of
\* the callback has started before the scheduling call has returned, and
\* the call returns at the time it was made.
C23_ScheduleReturns ==
    /\ [](tcall # "returned" => firings = 0 /\ inprogress = 0)
    /\ [][(tcall # "returned" /\ tcall' = "returned") =>
             firings' = 0 /\ now' = now]_vars

\* a timer of delay zero and the longest callback: the call has returned
\* and the first execution of the callback is in progress
C23_Witness ==
    /\ tcall = "returned"
    /\ tperiod = 0
    /\ tdur = MaxDur
    /\ firings = 1
    /\ inprogress = 1

\* C24: the firings of a repeating timer never overlap: a firing starts
\* only when every earlier one has completed, also when the callback
\* takes longer than the period; the timer then falls behind, and by time
\* `now` it has completed no more firings than fit in that time.
C24_NoOverlap ==
    /\ [](tkind = "repeating" =>
            /\ inprogress <= 1
            /\ inprogress = firings - completed
            /\ completed * tdur <= now)
    /\ [][(tkind = "repeating" /\ firings' = firings + 1) =>
             inprogress = 0 /\ completed = firings]_vars

\* a repeating timer of period zero whose callback takes two ticks has
\* completed two firings after four ticks and not more
C24_Witness ==
    /\ tkind = "repeating"
    /\ tperiod = 0
    /\ tdur = 2
    /\ now = 4
    /\ completed = 2
    /\ firings = 2

\* C25: once close() was called on the handle of a timer no firing starts
\* any more; close() leaves a firing in progress alone, and that firing
\* runs to its completion.
C25_CloseCancels ==
    /\ [][cancelled => firings' = firings]_vars
    /\ [][(cancelled \/ cancelled') =>
             /\ inprogress' \in {inprogress, inprogress - 1}
             /\ inprogress' < inprogress => completed' = completed + 1]_vars
    /\ (cancelled /\ inprogress > 0) ~> (cancelled /\ inprogress = 0)

\* a repeating timer closed during its first firing: the firing has
\* completed, and the next one, due in the past, has not started
C25_Witness ==
    /\ cancelled
    /\ tkind = "repeating"
    /\ firings = 1
    /\ completed = 1
    /\ due # Never
    /\ now > due

(***************************************************************************)
(* Properties of the address model.                                        *)
(***************************************************************************)
\* C26: twin is an involution on kinds, roles and addresses: twin of twin
\* of a value is the value.  It maps REQ to REP, PUSH to PULL, PUB to SUB
\* and each back, server to client and back; the twin of an address has
\* the same transport, location and serializer, the twin kind and the
\* other role.
C26_TwinInvolution ==
    /\ \A i \in 1 .. Len(tseen) - 2 : tseen[i + 2] = tseen[i]
    /\ \A i \in 1 .. Len(tseen) - 1 :
          LET x == tseen[i]
              y == tseen[i + 1]
          IN  /\ y.tag = x.tag
              /\ y.transport = x.transport
              /\ y.address = x.address
              /\ y.serializer = x.serializer
              /\ x.tag # "role" =>
                    <<x.kind, y.kind>> \in
                       {<<"REQ", "REP">>, <<"REP", "REQ">>, <<"PUSH", "PULL">>,
                        <<"PULL", "PUSH">>, <<"PUB", "SUB">>, <<"SUB", "PUB">>}
              /\ x.tag # "kind" =>
                    <<x.role, y.role>> \in
                       {<<"server", "client">>, <<"client", "server">>}

\* the address of test_agent_address_explicit_serializer, its twin and
\* the twin of its twin
C26_Witness ==
    /\ Len(tseen) = 3
    /\ tseen[1] = AddressValue("ipc", "addr", "PUSH", "server", "raw")
    /\ tseen[2] = AddressValue("ipc", "addr", "PULL", "client", "raw")
    /\ tseen[3] = tseen[1]

(***************************************************************************)
(* Properties of the loop thread: interruption, the running flag, and the  *)
(* number of threads.                                                      *)
(***************************************************************************)
\* C27 as stated: a poll that is interrupted (EINTR) counts as a poll
\* without events: the thread leaves the poll for the next test of the
\* loop or for the dispatch of events and the agent stays running, unless
\* another failure of poll propagates.
C27_InterruptContinues ==
    [][(lpc = "poll" /\ lpc' \notin {"poll", "crashed"}) =>
          /\ lpc' \in {"loop", "recv"}
          /\ running' = running]_vars

\* C27: a poll that is interrupted (EINTR) propagates no error and ends
\* the loop: run() returns with running false, the iteration dispatches
\* nothing and the thread dispatches nothing afterwards; any other failure
\* of poll propagates, and leaves running as it was.
C27_InterruptEndsLoop ==
    /\ [][(lpc = "poll" /\ lpc' = "stopped") =>
             /\ ~running'
             /\ exited'
             /\ UNCHANGED <<keep_alive, inbox, hstarted, hfinished, sent>>]_vars
    /\ [][(lpc = "poll" /\ lpc' = "crashed") =>
             /\ exited'
             /\ UNCHANGED <<running, keep_alive, inbox, hstarted>>]_vars
    /\ [][lpc = "stopped" =>
             lpc' = "stopped" /\ UNCHANGED <<hstarted, hfinished, sent>>]_vars

\* the loop ended by an interruption (keep_alive is still true) while a
\* message was waiting to be read
C27_Witness ==
    /\ lpc = "stopped"
    /\ keep_alive
    /\ ~running
    /\ \E s \in poller : inbox[s] # <<>>

\* C28: running is true exactly while the loop is executing: it is true
\* while the thread of run() is in loop(), and false once that thread has
\* ended, whether by STOP, by an interrupted poll, by a failure of poll or
\* by an exception of a handler.
C28_RunningWhileLooping ==
    /\ InLoop => running
    /\ lpc \in {"stopped", "crashed"} => ~running

\* the steps of run() in which a thread polls, reads or dispatches
Serving == {"poll", "recv", "handler", "after"}

\* C29: at most one thread executes the event loop of an agent: whatever
\* the invocations of run(), no two threads are polling or dispatching
\* handlers of the agent at the same time.
C29_OneLoopThread == ~(lpc \in Serving /\ parked.lpc \in Serving)

\* a request with the header waits in the loopback socket
Pending(header) ==
    \E i \in 1 .. Len(inbox[LoopbackSocket]) :
        inbox[LoopbackSocket][i].hdr = header

\* C30: the loopback channel stays serviceable after an unrecognized
\* header: once the running loop has handled a request with an unknown
\* header, a PING that waits in the channel is eventually handled (and
\* answered PONG) unless the loop was stopped first, and a STOP that waits
\* in the channel eventually stops the loop.
C30_StaysServiceable ==
    [](Handled("FOO") =>
          /\ [](Pending("PING") => <>(Handled("PING") \/ ~running))
          /\ [](Pending("STOP") => <>(~running)))

\* C31: every loopback call that passed the test of running returns: the
\* call of the daemon thread leaves its wait for the reply, and every
\* request that waits in the loopback socket is eventually read, also when
\* two threads request STOP while the loop is running.
C31_LoopbackReturns ==
    /\ \A c \in TheCaller : (cpc[c] = "lbwait") ~> (cpc[c] # "lbwait")
    /\ (inbox[LoopbackSocket] # <<>>) ~> (inbox[LoopbackSocket] = <<>>)

C33_ReplyOfOwnHandler ==
    [][\A s \in DOMAIN sent :
          (lpc = "after" /\ sent'[s] # sent[s]) =>
              /\ s = cur /\ hlog # <<>>
              /\ sent'[s] = Append(sent[s],
                                   HandlerReturn(hlog[Len(hlog)].fn, msg))]_vars

(***************************************************************************)
(* Properties of the registry after a call                                 *)
(***************************************************************************)
\* C34: the handler entry of every registered SUB socket, bound or
\* connected, is a dict from topic to callback, and the socket is
\* subscribed to each topic of the dict.
C34_SubHandlerIsDict ==
    \A s \in RegisteredSockets :
        sockinfo[s].kind = "SUB" =>
            /\ s \in DOMAIN handler
            /\ handler[s].ty = "dict"
            /\ {handler[s].ts[i] : i \in DOMAIN handler[s].ts} \subseteq subs[s]

\* C35: a call of register, bind or connect that fails leaves the socket
\* map, the address map, the handler map and the polled set as they were,
\* and every polled socket has a handler entry.
C35_AtomicOnFailure ==
    /\ [](poller \subseteq DOMAIN handler)
    /\ [][(last'.op \in {"register", "bind", "connect"} /\ last'.err # "none")
             => UNCHANGED <<socket, address, handler, poller>>]_vars

(***************************************************************************)
(* Properties of the sockets closed by CLOSE                               *)
(***************************************************************************)
\* C36: once CLOSE has been handled, a closed socket is in the polled set
\* no more, so that the later iterations poll and serve the loopback socket
\* only, and it is registered under no key.
C36_ClosedForgotten ==
    \A s \in closed : s \notin poller /\ s \notin RegisteredSockets

\* C37: for a server address whose twin kind requires a handler, a connect
\* made when the twin address is registered never returns: without a
\* handler it fails the handler check, with one it fails the check of
\* _connect_old; a connect that reuses a socket is one for a client kind
\* that requires no handler.
C37_NoReuseWithRequiredHandler ==
    \A addr \in {a \in Addresses : a.role = "server"},
       alias \in AliasArgs, h \in HandlerArgs :
        LET twin == AddressTwin(addr)
            r == connect(Registry, addr, alias, h, FALSE)
        IN  registered(Registry, twin) =>
                /\ requires_handler(twin.kind) =>
                      /\ r.err = IF h = HNone THEN HandlerRequired
                                 ELSE NewHandlerGiven
                      /\ r.R = Registry
                /\ r.err = "none" => ~requires_handler(twin.kind) /\ h = HNone

\* a connect without a handler was refused by an agent that has connected
\* a client socket of a kind that requires a handler
C37_Witness ==
    /\ last = [op |-> "connect", err |-> HandlerRequired]
    /\ \E addr \in {a \in Addresses : a.role = "server"} :
          /\ registered(Registry, AddressTwin(addr))
          /\ requires_handler(AddressTwin(addr).kind)
          /\ sockinfo[socket[AddressTwin(addr)]].via = "connect"
          /\ connect(Registry, addr, NoneKey, HNone, FALSE).err = HandlerRequired
====
